---- MODULE Spec2Model ----
(***************************************************************************)
(* Speak-Note: the scheduling-information extraction pipeline              *)
(* (extract_scheduling_info, src/app/ai_analysis.py).                      *)
(*                                                                         *)
(* A Python str is a sequence of atoms.  An atom is either a maximal run   *)
(* of regex word characters (\w+) or a single non-word character, so that  *)
(* the regex anchor \b is exactly a border between a word atom and a       *)
(* non-word atom (or the end of the text).  What the regexes need to know  *)
(* about the characters inside a word atom (leading digits, the rest, the  *)
(* lower-case form) is tabulated.                                          *)
(* A confidence is kept in tenths (0.5 is 5): 0.0+0.5, 0.5+0.3 and         *)
(* 0.8+0.2 are 0.5, 0.8 and 1.0 in IEEE double arithmetic as well.         *)
(***************************************************************************)
EXTENDS Integers, Sequences, FiniteSets, TLC

VARIABLES
    text,             \* argument: the raw text
    user_timezone,    \* argument: the timezone hint, or None
    pc,               \* position of the call
    text_lower,       \* local, line 188
    tz,               \* local, lines 190-197
    now,              \* local, line 198
    scheduling_info,  \* local, lines 201-207
    matches,          \* the numeric-date matches re.finditer yields, line 211
    mi,               \* index of the match the loop of line 211 is at
    date_entities,    \* local, line 210
    time_entities,    \* local, line 249
    parser_calls,     \* log of the calls of dateparser.parse and their outcomes
    nlp_arg,          \* the argument nlp() was called with, line 274
    doc,              \* local, line 274
    entities,         \* local, lines 284-289
    final_title,      \* local, line 300
    exc,              \* the exception in flight or handled, or NoExc
    result,           \* what the call returned
    calls,            \* several calls in flight: the locals of each
    module_state,     \* the module-level names the calls read (nlp, lines 17-24)
    api_request,      \* the /analyze request being served, or None
    api_response,     \* what the /analyze endpoint answered, or None
    users,            \* table users: for each email its row, or None
    utcnow,           \* datetime.utcnow(), in minutes
    mail_configured,  \* settings.MAIL_USERNAME and settings.MAIL_PASSWORD are set
    login_req,        \* the request-login-otp request in flight: position and locals
    auth_response,    \* the last response of an /auth endpoint
    issued,           \* history: the codes request-registration-otp generated
    reminders,        \* table reminders: for each id its row, or None
    rem_response      \* the last response of a /reminders route

\* the arguments and locals of the one call
callVars == <<text, user_timezone, pc, text_lower, tz, now, scheduling_info,
              matches, mi, date_entities, time_entities, parser_calls, nlp_arg,
              doc, entities, final_title, exc, result>>

\* the calls in flight and what they share
concVars == <<calls, module_state>>

\* the /analyze endpoints of main.py
apiVars == <<api_request, api_response>>

\* the OTP endpoints of main.py and what they keep in the database
authVars == <<users, utcnow, mail_configured, login_req, auth_response, issued>>

\* the /reminders routes of main.py and their table
remVars == <<reminders, rem_response>>

vars == <<callVars, concVars, apiVars, authVars, remVars>>

---------------------------------------------------------------------------
(* Bounds of the model *)

\* the input text is up to MaxItems phrases of Items, joined by blanks, at
\* most one of them of RareItems
MaxItems == 2
\* the day number of the host's local "now"
HostDay == 1000

---------------------------------------------------------------------------
(* Python values *)

NoneVal == [kind |-> "None"]
Str(s) == [kind |-> "str", v |-> s]
DateTime(d, z) == [kind |-> "datetime", day |-> d, tz |-> z]
NoExc == [kind |-> "NoExc"]
NoResult == [pending |-> TRUE]

\* bool(x) of a value: None and "" are false, a datetime is always true
Truthy(x) ==
    CASE x.kind = "None" -> FALSE
      [] x.kind = "str" -> x.v # <<>>
      [] OTHER -> TRUE

\* datetime + timedelta(days=n): the zone is kept
PlusDays(d, n) == DateTime(d.day + n, d.tz)

---------------------------------------------------------------------------
(* Characters and atoms *)

\* "~" stands for the combining dot above (U+0307), which is no word
\* character, and "I~" for the capital I with dot above (U+0130), which is one
NonWordAtoms == {" ", ".", "/", "-", ":", ",", "~"}
IsWord(a) == a \notin NonWordAtoms

\* str.lower() of one atom
LowerAtom(a) ==
    CASE a = "Today" -> "today"
      [] a = "TMRW" -> "tmrw"
      [] a = "Noon" -> "noon"
      [] a = "5PM" -> "5pm"
      [] a = "John" -> "john"
      [] a = "Paris" -> "paris"
      [] a = "Alps" -> "alps"
      [] OTHER -> a

\* str.lower() of one atom, as atoms: the lower case of U+0130 is "i" and
\* U+0307, two characters, so a word that holds it falls apart
LowerAtoms(a) == IF a = "I~1" THEN <<"i", "~", "1">> ELSE <<LowerAtom(a)>>

\* str.lower()
RECURSIVE Lower(_)
Lower(t) == IF t = <<>> THEN <<>> ELSE LowerAtoms(Head(t)) \o Lower(Tail(t))

\* the number of leading digits (\d) of an atom
DigitPrefix(a) ==
    CASE a \in {"1", "2", "5", "5pm", "5PM"} -> 1
      [] a \in {"12", "25", "30", "99", "30pm"} -> 2
      [] a = "123" -> 3
      [] a = "2024" -> 4
      [] OTHER -> 0

\* what follows the leading digits of an atom
Rest(a) ==
    CASE a \in {"1", "2", "5", "12", "25", "30", "99", "123", "2024"} -> ""
      [] a \in {"5pm", "30pm"} -> "pm"
      [] a = "5PM" -> "PM"
      [] OTHER -> a

\* the number a digit atom writes
NumVal(a) ==
    CASE a = "1" -> 1
      [] a = "2" -> 2
      [] a = "5" -> 5
      [] a = "12" -> 12
      [] a = "25" -> 25
      [] a = "30" -> 30
      [] a = "99" -> 99
      [] a = "123" -> 123
      [] a = "2024" -> 2024
      [] OTHER -> 0

\* the whole atom is \d{lo,hi}
IsDigits(a, lo, hi) == Rest(a) = "" /\ DigitPrefix(a) \in lo..hi

\* \b just before t[i] (i = Len(t)+1: at the end of t)
WordBoundary(t, i) ==
    LET leftWord == i > 1 /\ i - 1 <= Len(t) /\ IsWord(t[i-1])
        rightWord == i >= 1 /\ i <= Len(t) /\ IsWord(t[i])
    IN  leftWord # rightWord

\* the length of the run of blanks (\s*) that starts at t[i]
RECURSIVE Blanks(_, _)
Blanks(t, i) == IF i <= Len(t) /\ t[i] = " " THEN 1 + Blanks(t, i + 1) ELSE 0

\* sep.join(parts), parts and sep being strings
RECURSIVE Join(_, _)
Join(sep, parts) ==
    IF parts = <<>> THEN <<>>
    ELSE IF Len(parts) = 1 THEN parts[1]
    ELSE parts[1] \o sep \o Join(sep, Tail(parts))

---------------------------------------------------------------------------
(* The numeric-date scan, line 211 *)

\* variant: the scan knows the slash only
DateSeparatorsSlashOnly == {"/"}

DateSeparators == {"/", "-"}

\* \b\d{1,2}[/-]\d{1,2}[/-]\d{2,4}\b matches t[i..i+4]
NumericDateAt(t, i) ==
    /\ i + 4 <= Len(t)
    /\ WordBoundary(t, i)
    /\ IsDigits(t[i], 1, 2)
    /\ t[i+1] \in DateSeparators
    /\ IsDigits(t[i+2], 1, 2)
    /\ t[i+3] \in DateSeparators
    /\ IsDigits(t[i+4], 2, 4)
    /\ WordBoundary(t, i + 5)

\* re.finditer: the matches from t[i] on, leftmost first, not overlapping;
\* each is match.group()
RECURSIVE NumericDateMatches(_, _)
NumericDateMatches(t, i) ==
    IF i > Len(t) THEN <<>>
    ELSE IF NumericDateAt(t, i)
         THEN <<SubSeq(t, i, i + 4)>> \o NumericDateMatches(t, i + 5)
         ELSE NumericDateMatches(t, i + 1)

---------------------------------------------------------------------------
(* dateparser.parse, line 213: an external capability.  It parses a string *)
(* whose first two numbers can be a day and a month, and for any other     *)
(* string either returns None or raises.                                   *)

ParsableDate(m) ==
    LET a == NumVal(m[1])
        b == NumVal(m[3])
    IN  /\ a >= 1 /\ b >= 1
        /\ \/ a <= 12 /\ b <= 31
           \/ a <= 31 /\ b <= 12

\* the naive datetime dateparser returns, numbered by the three numbers read
ParsedDate(m) ==
    DateTime(NumVal(m[5]) * 10000 + NumVal(m[3]) * 100 + NumVal(m[1]), "naive")

ParserRaises == [kind |-> "raises"]

ParserOutcomes(m) ==
    IF ParsableDate(m) THEN {ParsedDate(m)} ELSE {NoneVal, ParserRaises}

---------------------------------------------------------------------------
(* The relative vocabulary, lines 225-235 *)

tomorrow_variants ==
    << <<"tomorrow">>, <<"tommorow">>, <<"tomorow">>, <<"tomoroww">>,
       <<"tommorrow">>, <<"tmrw">>, <<"tmr">>, <<"tmrw", ".">>, <<"tmr", ".">>,
       <<"tmorrow">> >>

\* variant: "next month" as a month of 31 days
relative_date_patterns_31 ==
    << [pattern |-> <<"today">>, days |-> 0] >>
    \o [i \in 1..Len(tomorrow_variants) |->
            [pattern |-> tomorrow_variants[i], days |-> 1]]
    \o << [pattern |-> <<"yesterday">>, days |-> -1],
          [pattern |-> <<"yesturday">>, days |-> -1],
          [pattern |-> <<"next", " ", "week">>, days |-> 7],
          [pattern |-> <<"next", " ", "month">>, days |-> 31] >>

\* the dict of line 228, in insertion order, each date as a number of days
\* from now
relative_date_patterns ==
    << [pattern |-> <<"today">>, days |-> 0] >>
    \o [i \in 1..Len(tomorrow_variants) |->
            [pattern |-> tomorrow_variants[i], days |-> 1]]
    \o << [pattern |-> <<"yesterday">>, days |-> -1],
          [pattern |-> <<"yesturday">>, days |-> -1],
          [pattern |-> <<"next", " ", "week">>, days |-> 7],
          [pattern |-> <<"next", " ", "month">>, days |-> 30] >>

\* the words of the vocabulary that the characters of the lower-case atom a
\* hold without being the whole of a
ProperInfixes(a) ==
    CASE a = "todays" -> {"today"}
      [] a = "tmrx" -> {"tmr"}
      [] a = "tmrw" -> {"tmr"}
      [] a = "tomoroww" -> {"tomorow"}
      [] OTHER -> {}

\* variant: re.search(re.escape(p), t), a search for the substring
PhraseAtSubstring(p, t, i) ==
    \/ /\ i + Len(p) - 1 <= Len(t)
       /\ SubSeq(t, i, i + Len(p) - 1) = p
    \/ /\ Len(p) = 1
       /\ p[1] \in ProperInfixes(t[i])

\* re.search(r'\b' + re.escape(p) + r'\b', t)
PhraseAt(p, t, i) ==
    /\ i + Len(p) - 1 <= Len(t)
    /\ SubSeq(t, i, i + Len(p) - 1) = p
    /\ WordBoundary(t, i)
    /\ WordBoundary(t, i + Len(p))

PhraseFound(p, t) == \E i \in 1..Len(t) : PhraseAt(p, t, i)

\* the loop of lines 238-246 from table row k on: the entries it appends
RECURSIVE RelativeEntries(_, _, _)
RelativeEntries(k, t, anchor) ==
    IF k > Len(relative_date_patterns) THEN <<>>
    ELSE LET row == relative_date_patterns[k]
         IN  (IF PhraseFound(row.pattern, t)
              THEN << [text |-> row.pattern, date |-> PlusDays(anchor, row.days)] >>
              ELSE <<>>)
             \o RelativeEntries(k + 1, t, anchor)

---------------------------------------------------------------------------
(* The time patterns, lines 250-262 *)

AmPm == {"am", "pm"}
NamedPeriods == {"morning", "afternoon", "evening", "night", "noon", "midnight"}

\* \b(\d{1,2}):(\d{2})\s*(am|pm)?\b at t[i]: the index of the last atom of
\* the match, 0 when there is none.  \s* is greedy and gives blanks back
\* only when \b fails after them.
ClockEnd(t, i) ==
    IF ~ /\ i + 2 <= Len(t)
         /\ WordBoundary(t, i)
         /\ IsDigits(t[i], 1, 2)
         /\ t[i+1] = ":"
         /\ DigitPrefix(t[i+2]) = 2
    THEN 0
    ELSE IF Rest(t[i+2]) \in AmPm THEN i + 2
    ELSE IF Rest(t[i+2]) # "" THEN 0
    ELSE LET k == Blanks(t, i + 3)
             j == i + 3 + k
         IN  IF j <= Len(t) /\ t[j] \in AmPm /\ WordBoundary(t, j + 1) THEN j
             ELSE IF k > 0 /\ WordBoundary(t, j) THEN j - 1
             ELSE IF WordBoundary(t, i + 3) THEN i + 2
             ELSE 0

\* \b(\d{1,2})\s*(am|pm)\b at t[i]
HourEnd(t, i) ==
    IF ~ (WordBoundary(t, i) /\ DigitPrefix(t[i]) \in 1..2) THEN 0
    ELSE IF Rest(t[i]) \in AmPm THEN i
    ELSE IF Rest(t[i]) # "" THEN 0
    ELSE LET j == i + 1 + Blanks(t, i + 1)
         IN  IF j <= Len(t) /\ t[j] \in AmPm /\ WordBoundary(t, j + 1) THEN j
             ELSE 0

\* \b(morning|afternoon|evening|night|noon|midnight)\b at t[i]
PeriodEnd(t, i) == IF t[i] \in NamedPeriods THEN i ELSE 0

\* variant: the hour pattern is tried before the clock pattern
time_patterns_hour_first == <<"hour", "clock", "period">>

\* the list of line 250
time_patterns == <<"clock", "hour", "period">>

PatternEnd(p, t, i) ==
    CASE p = "clock" -> ClockEnd(t, i)
      [] p = "hour" -> HourEnd(t, i)
      [] OTHER -> PeriodEnd(t, i)

\* re.finditer(pattern, t) from t[i] on: each match.group(), with the atoms
\* it starts and ends at for match.start() and match.end()
RECURSIVE TimeMatches(_, _, _)
TimeMatches(p, t, i) ==
    IF i > Len(t) THEN <<>>
    ELSE LET e == PatternEnd(p, t, i)
         IN  IF e > 0
             THEN << [text |-> Str(SubSeq(t, i, e)), start |-> i, end |-> e] >>
                  \o TimeMatches(p, t, e + 1)
             ELSE TimeMatches(p, t, i + 1)

\* the loops of lines 256-262 from pattern k on
RECURSIVE TimeEntries(_, _)
TimeEntries(k, t) ==
    IF k > Len(time_patterns) THEN <<>>
    ELSE TimeMatches(time_patterns[k], t, 1) \o TimeEntries(k + 1, t)

---------------------------------------------------------------------------
(* pytz.timezone and datetime.now, lines 191-198 *)

NoHint == "<None>"
KnownZones == {"Asia/Tokyo"}
TzHints == {NoHint, "Asia/Tokyo", "Mars/Phobos"}

\* pytz.timezone(name): the zone, or "raises" (UnknownTimeZoneError)
PytzTimezone(name) == IF name \in KnownZones THEN name ELSE "raises"

\* variant: a name pytz does not know gives UTC
ResolveTzUtc(hint) ==
    IF hint \in {NoHint, ""} THEN "local"
    ELSE IF PytzTimezone(hint) # "raises" THEN PytzTimezone(hint)
    ELSE "UTC"

\* lines 190-197: tz is None unless the hint is truthy and pytz knows it
\* (line 194 catches what pytz raises); a tz of None becomes the host's local
\* zone
ResolveTz(hint) ==
    LET named == IF hint \notin {NoHint, ""} /\ PytzTimezone(hint) # "raises"
                 THEN PytzTimezone(hint)
                 ELSE NoHint
    IN  IF named = NoHint THEN "local" ELSE named

\* by how many days the date in zone z can be ahead of the host's date
DayShifts(z) == IF z = "local" THEN {0} ELSE {0, 1}

---------------------------------------------------------------------------
(* nlp(text), line 274: an external capability.  A Doc has one token for   *)
(* each word of the text, tagged, and the entity spans found; the tagging  *)
(* is any of NlpModels, or the call raises.                                *)

NlpModels == {"lexicon", "nothing", "allnouns"}

Pos(model, a) ==
    CASE model = "nothing" -> "X"
      [] model = "allnouns" -> "NOUN"
      [] a \in {"John", "Paris", "Alps"} -> "PROPN"
      [] a \in {"meeting", "call", "noon", "morning", "week", "month"} -> "NOUN"
      [] OTHER -> "X"

Label(model, a) ==
    CASE model = "nothing" -> ""
      [] model = "allnouns" /\ a = "John" -> "ORG"
      [] model = "allnouns" /\ a = "Paris" -> "LOC"
      [] model = "allnouns" /\ DigitPrefix(a) > 0 -> "DATE"
      [] model = "lexicon" /\ a = "John" -> "PERSON"
      [] model = "lexicon" /\ a = "Paris" -> "GPE"
      [] model = "lexicon" /\ a = "Alps" -> "LOC"
      [] OTHER -> ""

RECURSIVE Tokens(_, _)
Tokens(model, t) ==
    IF t = <<>> THEN <<>>
    ELSE (IF IsWord(Head(t))
          THEN << [text |-> Head(t), pos_ |-> Pos(model, Head(t))] >>
          ELSE <<>>) \o Tokens(model, Tail(t))

RECURSIVE Ents(_, _)
Ents(model, t) ==
    IF t = <<>> THEN <<>>
    ELSE (IF IsWord(Head(t)) /\ Label(model, Head(t)) # ""
          THEN << [text |-> Head(t), label_ |-> Label(model, Head(t))] >>
          ELSE <<>>) \o Ents(model, Tail(t))

Doc(model, t) == [kind |-> "Doc", tokens |-> Tokens(model, t), ents |-> Ents(model, t)]

Raised(cls, site) == [kind |-> "exc", cls |-> cls, site |-> site]

NlpErrors == {"OSError"}

NlpOutcomes(t) ==
    {Doc(m, t) : m \in NlpModels} \cup {Raised(c, "nlp") : c \in NlpErrors}

\* variant: a handler for ValueError alone
CatchesValueErrorOnly(e) == e.cls = "ValueError"

\* the classes "except Exception" catches, among those raised here
ExceptionSubclasses == {"ValueError", "OSError", "UnicodeEncodeError"}

Catches(e) == e.cls \in ExceptionSubclasses

---------------------------------------------------------------------------
(* The inputs *)

\* the phrases every place of a text is drawn from
CoreItems ==
    { <<"today">>, <<"tomorrow">>, <<"next", " ", "week">>,
      <<"25", "/", "12", "/", "2024">>, <<"99", "/", "99", "/", "2024">>,
      <<"5", ":", "30pm">>, <<"John">> }

\* the phrases a text holds at most one of
RareItems ==
    { <<"tommorow">>, <<"tomorow">>, <<"tomoroww">>, <<"tommorrow">>, <<"tmrw">>,
      <<"tmr">>, <<"tmorrow">>, <<"yesterday">>, <<"yesturday">>,
      <<"next", " ", "month">>,
      <<"tmrw", ".">>, <<"tmr", ".", "John">>,
      <<"Today">>, <<"TMRW">>, <<"todays">>, <<"tmrx">>,
      <<"1", "-", "2", "-", "99">>, <<"123", "/", "12", "/", "2024">>,
      <<"I~1", "/", "2", "/", "99">>,
      <<"5", ":", "30">>, <<"5", " ", "pm">>, <<"noon">>, <<"morning">>,
      <<"5pm">>, <<"Paris">>, <<"Alps", " ", "Paris">>, <<"meeting">>, <<"call">> }

Items == CoreItems \cup RareItems

ItemSeqs ==
    UNION { { s \in [1..n -> Items] :
                Cardinality({i \in 1..n : s[i] \in RareItems}) <= 1 } : n \in 0..MaxItems }

Texts == { Join(<<" ">>, s) : s \in ItemSeqs }

---------------------------------------------------------------------------
(* The steps of extract_scheduling_info *)

DateConfidence == 5
TimeConfidence == 3
JointBonus == 2
MaxConfidence == 10

Min(a, b) == IF a <= b THEN a ELSE b

\* lines 201-207
InitialInfo(t) ==
    [detected_date |-> NoneVal, detected_time |-> NoneVal, confidence |-> 0,
     extracted_text |-> Str(t), suggested_title |-> NoneVal]

\* lines 214-220: a truthy parse is appended, None is not
WithParsed(dates, m, parsed) ==
    IF Truthy(parsed) THEN Append(dates, [text |-> m, date |-> parsed]) ELSE dates

\* variant: the relative matches are put before what is there
WithRelativeFirst(dates, t, anchor) == RelativeEntries(1, t, anchor) \o dates

\* the relative matches that start at t[i] or later, by their place in the text
RECURSIVE RelativeEntriesFrom(_, _, _)
RelativeEntriesFrom(i, t, anchor) ==
    IF i > Len(t) THEN <<>>
    ELSE LET here == SelectSeq(RelativeEntries(1, t, anchor),
                               LAMBDA e : PhraseAt(e.text, t, i))
         IN  here \o RelativeEntriesFrom(i + 1, t, anchor)

\* variant: the relative matches are appended in the order of the text
WithRelativeTextOrder(dates, t, anchor) == dates \o RelativeEntriesFrom(1, t, anchor)

\* lines 238-246: the relative matches are appended after what is there
WithRelative(dates, t, anchor) == dates \o RelativeEntries(1, t, anchor)

\* variant: every date candidate adds its 0.5
CombineDatePerCandidate(info, dates) ==
    IF dates # <<>>
    THEN [info EXCEPT !.detected_date = dates[1].date,
                      !.confidence = @ + DateConfidence * Len(dates)]
    ELSE info

\* lines 265-267
CombineDate(info, dates) ==
    IF dates # <<>>
    THEN [info EXCEPT !.detected_date = dates[1].date,
                      !.confidence = @ + DateConfidence]
    ELSE info

\* variant: every time candidate adds its 0.3
CombineTimePerCandidate(info, times) ==
    IF times # <<>>
    THEN [info EXCEPT !.detected_time = times[1].text,
                      !.confidence = @ + TimeConfidence * Len(times)]
    ELSE info

\* lines 269-271
CombineTime(info, times) ==
    IF times # <<>>
    THEN [info EXCEPT !.detected_time = times[1].text,
                      !.confidence = @ + TimeConfidence]
    ELSE info

\* lines 275-277
RECURSIVE Nouns(_)
Nouns(tokens) ==
    IF tokens = <<>> THEN <<>>
    ELSE (IF Head(tokens).pos_ \in {"NOUN", "PROPN"} THEN << <<Head(tokens).text>> >> ELSE <<>>)
         \o Nouns(Tail(tokens))

FirstThree(s) == SubSeq(s, 1, Min(3, Len(s)))

SuggestTitle(info, d) ==
    IF Nouns(d.tokens) # <<>>
    THEN [info EXCEPT !.suggested_title = Str(Join(<<" ">>, FirstThree(Nouns(d.tokens))))]
    ELSE info

\* variant: with both signals the confidence is set to the bonus
AddJointBonusReplacing(info) ==
    IF Truthy(info.detected_date) /\ Truthy(info.detected_time)
    THEN [info EXCEPT !.confidence = Min(MaxConfidence, JointBonus)]
    ELSE info

\* lines 280-281
AddJointBonus(info) ==
    IF Truthy(info.detected_date) /\ Truthy(info.detected_time)
    THEN [info EXCEPT !.confidence = Min(MaxConfidence, @ + JointBonus)]
    ELSE info

\* lines 287-288: the texts of the entities with a label of labels
RECURSIVE EntTexts(_, _)
EntTexts(ents, labels) ==
    IF ents = <<>> THEN <<>>
    ELSE (IF Head(ents).label_ \in labels THEN << <<Head(ents).text>> >> ELSE <<>>)
         \o EntTexts(Tail(ents), labels)

\* variant: a place is an entity labelled GPE
ExtractEntitiesGpeOnly(d) ==
    [dates |-> <<>>, times |-> <<>>,
     people |-> EntTexts(d.ents, {"PERSON"}),
     places |-> EntTexts(d.ents, {"GPE"})]

\* lines 284-289
ExtractEntities(d) ==
    [dates |-> <<>>, times |-> <<>>,
     people |-> EntTexts(d.ents, {"PERSON"}),
     places |-> EntTexts(d.ents, {"GPE", "LOC"})]

\* variant: no fallback, an empty list of parts gives the empty title
ComposeTitleNoFallback(info, ents) ==
    LET title_parts ==
            (IF Truthy(info.suggested_title) THEN <<info.suggested_title.v>> ELSE <<>>)
            \o (IF ents.people # <<>>
                THEN << <<"with", " ">> \o Join(<<",", " ">>, ents.people) >>
                ELSE <<>>)
            \o (IF ents.places # <<>>
                THEN << <<"at", " ">> \o Join(<<",", " ">>, ents.places) >>
                ELSE <<>>)
    IN  Str(Join(<<" ">>, title_parts))

\* variant: the places are put before the people
ComposeTitlePlacesFirst(info, ents) ==
    LET title_parts ==
            (IF Truthy(info.suggested_title) THEN <<info.suggested_title.v>> ELSE <<>>)
            \o (IF ents.places # <<>>
                THEN << <<"at", " ">> \o Join(<<",", " ">>, ents.places) >>
                ELSE <<>>)
            \o (IF ents.people # <<>>
                THEN << <<"with", " ">> \o Join(<<",", " ">>, ents.people) >>
                ELSE <<>>)
    IN  IF title_parts # <<>> THEN Str(Join(<<" ">>, title_parts)) ELSE Str(<<"Reminder">>)

\* lines 292-300
ComposeTitle(info, ents) ==
    LET title_parts ==
            (IF Truthy(info.suggested_title) THEN <<info.suggested_title.v>> ELSE <<>>)
            \o (IF ents.people # <<>>
                THEN << <<"with", " ">> \o Join(<<",", " ">>, ents.people) >>
                ELSE <<>>)
            \o (IF ents.places # <<>>
                THEN << <<"at", " ">> \o Join(<<",", " ">>, ents.places) >>
                ELSE <<>>)
    IN  IF title_parts # <<>> THEN Str(Join(<<" ">>, title_parts)) ELSE Str(<<"Reminder">>)

\* lines 303-309
SuccessResult(title, info, ents) ==
    [suggested_title |-> title,
     detected_date |-> info.detected_date,
     detected_time |-> info.detected_time,
     confidence |-> info.confidence,
     entities |-> ents]

\* variant: the fault record is the working record plus the diagnostic
FaultResultFromInfo(t, e) ==
    [detected_date |-> scheduling_info.detected_date,
     detected_time |-> scheduling_info.detected_time,
     confidence |-> scheduling_info.confidence,
     extracted_text |-> Str(t),
     suggested_title |-> scheduling_info.suggested_title,
     error |-> Str(<<e.cls>>)]

\* lines 312-319; str(e) is known by the class of e
FaultResult(t, e) ==
    [detected_date |-> NoneVal,
     detected_time |-> NoneVal,
     confidence |-> 0,
     extracted_text |-> Str(t),
     suggested_title |-> NoneVal,
     error |-> Str(<<e.cls>>)]

\* the addresses of the model
Emails == {"ann@x", "bob@x"}

\* no /analyze request
NoApi ==
    /\ api_request = NoneVal
    /\ api_response = NoneVal

\* an empty database, no OTP request
NoAuth ==
    /\ users = [e \in Emails |-> NoneVal]
    /\ utcnow = 0
    /\ mail_configured = FALSE
    /\ login_req = [pc |-> "idle"]
    /\ auth_response = NoneVal
    /\ issued = {}

\* no reminders
NoReminders ==
    /\ reminders = <<>>
    /\ rem_response = NoneVal

\* no call of extract_scheduling_info
NoCall ==
    /\ text = <<>>
    /\ user_timezone = NoHint
    /\ pc = "idle"
    /\ text_lower = <<>>
    /\ tz = NoHint
    /\ now = NoneVal
    /\ scheduling_info = NoneVal
    /\ matches = <<>>
    /\ mi = 1
    /\ date_entities = <<>>
    /\ time_entities = <<>>
    /\ parser_calls = <<>>
    /\ nlp_arg = NoneVal
    /\ doc = NoneVal
    /\ entities = NoneVal
    /\ final_title = NoneVal
    /\ exc = NoExc
    /\ result = NoResult

Init ==
    /\ text \in Texts
    /\ user_timezone \in TzHints
    /\ pc = "start"
    /\ text_lower = <<>>
    /\ tz = NoHint
    /\ now = NoneVal
    /\ scheduling_info = NoneVal
    /\ matches = <<>>
    /\ mi = 1
    /\ date_entities = <<>>
    /\ time_entities = <<>>
    /\ parser_calls = <<>>
    /\ nlp_arg = NoneVal
    /\ doc = NoneVal
    /\ entities = NoneVal
    /\ final_title = NoneVal
    /\ exc = NoExc
    /\ result = NoResult
    /\ calls = <<>>
    /\ module_state = [nlp |-> "en_core_web_sm"]
    /\ NoApi
    /\ NoAuth
    /\ NoReminders

\* variant: now is datetime.now(), the host's naive now, whatever the zone
NormalizeHostNow ==
    /\ pc = "start"
    /\ text_lower' = Lower(text)
    /\ tz' = ResolveTz(user_timezone)
    /\ now' = DateTime(HostDay, "naive")
    /\ scheduling_info' = InitialInfo(text)
    /\ date_entities' = <<>>
    /\ matches' = NumericDateMatches(text, 1)
    /\ mi' = 1
    /\ pc' = "dates"
    /\ UNCHANGED <<text, user_timezone, time_entities, parser_calls, nlp_arg, doc,
                   entities, final_title, exc, result>>
    /\ UNCHANGED <<concVars, apiVars, authVars, remVars>>

\* lines 188-211: the lower-cased copy, the zone, now, the initial record and
\* the scan for numeric dates over the text as given
Normalize ==
    /\ pc = "start"
    /\ text_lower' = Lower(text)
    /\ tz' = ResolveTz(user_timezone)
    /\ \E shift \in DayShifts(tz') : now' = DateTime(HostDay + shift, tz')
    /\ scheduling_info' = InitialInfo(text)
    /\ date_entities' = <<>>
    /\ matches' = NumericDateMatches(text, 1)
    /\ mi' = 1
    /\ pc' = "dates"
    /\ UNCHANGED <<text, user_timezone, time_entities, parser_calls, nlp_arg, doc,
                   entities, final_title, exc, result>>
    /\ UNCHANGED <<concVars, apiVars, authVars, remVars>>

\* variant: no try around the parser, what it raises reaches line 311
ParseDateUncaught ==
    /\ pc = "dates"
    /\ mi <= Len(matches)
    /\ \E out \in ParserOutcomes(matches[mi]) :
        /\ parser_calls' = Append(parser_calls, [arg |-> matches[mi], out |-> out])
        /\ IF out = ParserRaises
           THEN /\ exc' = Raised("ValueError", "parser")
                /\ pc' = "except"
                /\ UNCHANGED <<date_entities, mi>>
           ELSE /\ date_entities' = WithParsed(date_entities, matches[mi], out)
                /\ mi' = mi + 1
                /\ UNCHANGED <<exc, pc>>
    /\ UNCHANGED <<text, user_timezone, text_lower, tz, now, scheduling_info,
                   matches, time_entities, nlp_arg, doc, entities, final_title, result>>
    /\ UNCHANGED <<concVars, apiVars, authVars, remVars>>

\* lines 211-222, one turn of the loop: the parser is called on the match;
\* a parse is appended, None is not, and line 221 catches whatever is raised
ParseDate ==
    /\ pc = "dates"
    /\ mi <= Len(matches)
    /\ \E out \in ParserOutcomes(matches[mi]) :
        /\ parser_calls' = Append(parser_calls, [arg |-> matches[mi], out |-> out])
        /\ date_entities' =
              IF out = ParserRaises THEN date_entities
              ELSE WithParsed(date_entities, matches[mi], out)
    /\ mi' = mi + 1
    /\ UNCHANGED <<text, user_timezone, pc, text_lower, tz, now, scheduling_info,
                   matches, time_entities, nlp_arg, doc, entities, final_title, exc,
                   result>>
    /\ UNCHANGED <<concVars, apiVars, authVars, remVars>>

\* lines 225-246, once the loop of line 211 is over
RelativePass ==
    /\ pc = "dates"
    /\ mi > Len(matches)
    /\ date_entities' = WithRelative(date_entities, text_lower, now)
    /\ pc' = "times"
    /\ UNCHANGED <<text, user_timezone, text_lower, tz, now, scheduling_info,
                   matches, mi, time_entities, parser_calls, nlp_arg, doc, entities,
                   final_title, exc, result>>
    /\ UNCHANGED <<concVars, apiVars, authVars, remVars>>

\* lines 249-262
TimePass ==
    /\ pc = "times"
    /\ time_entities' = TimeEntries(1, text_lower)
    /\ pc' = "combine"
    /\ UNCHANGED <<text, user_timezone, text_lower, tz, now, scheduling_info,
                   matches, mi, date_entities, parser_calls, nlp_arg, doc, entities,
                   final_title, exc, result>>
    /\ UNCHANGED <<concVars, apiVars, authVars, remVars>>

\* lines 265-271
Combine ==
    /\ pc = "combine"
    /\ scheduling_info' =
          CombineTime(CombineDate(scheduling_info, date_entities), time_entities)
    /\ pc' = "nlp"
    /\ UNCHANGED <<text, user_timezone, text_lower, tz, now, matches, mi,
                   date_entities, time_entities, parser_calls, nlp_arg, doc, entities,
                   final_title, exc, result>>
    /\ UNCHANGED <<concVars, apiVars, authVars, remVars>>

\* lines 274-300: nlp(text) raises, or returns the Doc the title, the bonus
\* and the entities are computed from
Synthesize ==
    /\ pc = "nlp"
    /\ nlp_arg' = Str(text)
    /\ \E out \in NlpOutcomes(text) :
        IF out.kind = "exc"
        THEN /\ exc' = out
             /\ pc' = "except"
             /\ UNCHANGED <<doc, scheduling_info, entities, final_title>>
        ELSE /\ doc' = out
             /\ scheduling_info' = AddJointBonus(SuggestTitle(scheduling_info, out))
             /\ entities' = ExtractEntities(out)
             /\ final_title' = ComposeTitle(scheduling_info', entities')
             /\ pc' = "emit"
             /\ exc' = exc
    /\ UNCHANGED <<text, user_timezone, text_lower, tz, now, matches, mi,
                   date_entities, time_entities, parser_calls, result>>
    /\ UNCHANGED <<concVars, apiVars, authVars, remVars>>

\* lines 302-309: the debug line is written, which the output stream may
\* refuse (UnicodeEncodeError), and the result is returned
Emit ==
    /\ pc = "emit"
    /\ \/ /\ result' = SuccessResult(final_title, scheduling_info, entities)
          /\ pc' = "done"
          /\ exc' = exc
       \/ /\ exc' = Raised("UnicodeEncodeError", "debug")
          /\ pc' = "except"
          /\ result' = result
    /\ UNCHANGED <<text, user_timezone, text_lower, tz, now, scheduling_info,
                   matches, mi, date_entities, time_entities, parser_calls,
                   nlp_arg, doc, entities, final_title>>
    /\ UNCHANGED <<concVars, apiVars, authVars, remVars>>

\* lines 311-319: "except Exception" returns the fault record; an exception
\* it does not catch leaves the call
Except ==
    /\ pc = "except"
    /\ IF Catches(exc)
       THEN /\ result' = FaultResult(text, exc)
            /\ pc' = "done"
       ELSE /\ result' = result
            /\ pc' = "raised"
    /\ UNCHANGED <<text, user_timezone, text_lower, tz, now, scheduling_info,
                   matches, mi, date_entities, time_entities, parser_calls,
                   nlp_arg, doc, entities, final_title, exc>>
    /\ UNCHANGED <<concVars, apiVars, authVars, remVars>>

Next ==
    \/ Normalize
    \/ ParseDate
    \/ RelativePass
    \/ TimePass
    \/ Combine
    \/ Synthesize
    \/ Emit
    \/ Except

Spec == Init /\ [][Next]_vars

---------------------------------------------------------------------------
(* Properties of extract_scheduling_info *)

Returned == pc = "done"
ReturnedSuccess == pc = "done" /\ exc = NoExc
ReturnedFault == pc = "done" /\ exc # NoExc
\* lines 265-271 have run
Combined == pc \in {"nlp", "emit", "except", "done", "raised"}
\* lines 265-271 have just run
JustCombined == pc = "nlp"
\* lines 238-246 have just run
RelativeDone == pc = "times"

IsParse(c) == c.out.kind = "datetime"
\* the parses dateparser returned, in the order of the calls
Parses == SelectSeq(parser_calls, IsParse)
SomeParserFailure == \E i \in 1..Len(parser_calls) : ~IsParse(parser_calls[i])

\* the relative vocabulary as the specification lists it, with the offsets in
\* days
Vocabulary ==
    << [phrase |-> <<"today">>, days |-> 0],
       [phrase |-> <<"tomorrow">>, days |-> 1],
       [phrase |-> <<"tommorow">>, days |-> 1],
       [phrase |-> <<"tomorow">>, days |-> 1],
       [phrase |-> <<"tomoroww">>, days |-> 1],
       [phrase |-> <<"tommorrow">>, days |-> 1],
       [phrase |-> <<"tmrw">>, days |-> 1],
       [phrase |-> <<"tmr">>, days |-> 1],
       [phrase |-> <<"tmorrow">>, days |-> 1],
       [phrase |-> <<"yesterday">>, days |-> -1],
       [phrase |-> <<"yesturday">>, days |-> -1],
       [phrase |-> <<"next", " ", "week">>, days |-> 7],
       [phrase |-> <<"next", " ", "month">>, days |-> 30] >>

\* phrase p stands in t as whole words: its atoms are atoms of t
OccursAsWords(p, t) ==
    \E i \in 1..Len(t) : i + Len(p) - 1 <= Len(t) /\ SubSeq(t, i, i + Len(p) - 1) = p

\* the rows of Vocabulary whose phrase stands in the lower-cased text
Occurring ==
    LET t == Lower(text)
    IN  {k \in 1..Len(Vocabulary) : OccursAsWords(Vocabulary[k].phrase, t)}

\* a numeric date D{1,2}[/-]D{1,2}[/-]D{2,4} stands at t[i] as whole words
DateShapeAt(t, i) ==
    /\ i + 4 <= Len(t)
    /\ IsDigits(t[i], 1, 2) /\ IsDigits(t[i+2], 1, 2) /\ IsDigits(t[i+4], 2, 4)
    /\ t[i+1] \in {"/", "-"} /\ t[i+3] \in {"/", "-"}

\* the text holds a numeric date the parser parses, which no numeric date
\* that starts earlier overlaps
HoldsValidNumericDate(t) ==
    \E i \in 1..Len(t) :
        /\ DateShapeAt(t, i)
        /\ ParsableDate(SubSeq(t, i, i + 4))
        /\ \A j \in 1..Len(t) : (j < i /\ j + 4 >= i) => ~DateShapeAt(t, j)

HoldsNumericDate(t) == \E i \in 1..Len(t) : DateShapeAt(t, i)

\* C1: extract_scheduling_info never lets an exception out: whatever the
\* text and the hint, and also when nlp() or dateparser.parse raises, the call
\* does not end raised, and when it can take no further step it has returned
\* a record
C1_NeverRaises ==
    /\ pc # "raised"
    /\ ENABLED Next \/ (pc = "done" /\ result # NoResult /\ "confidence" \in DOMAIN result)

\* nlp() raised after dateparser.parse had raised, and the call returned
C1_Witness ==
    /\ pc = "done"
    /\ exc # NoExc
    /\ exc.site = "nlp"
    /\ \E i \in 1..Len(parser_calls) : parser_calls[i].out = ParserRaises
    /\ "error" \in DOMAIN result

\* C2: the confidence is within 0.0 .. 1.0 in the working record at every
\* step and in the record returned, on the success path and on the fault path
C2_ConfidenceInRange ==
    /\ scheduling_info # NoneVal =>
          scheduling_info.confidence >= 0 /\ scheduling_info.confidence <= 10
    /\ Returned => result.confidence >= 0 /\ result.confidence <= 10

\* a success with several date and several time candidates, at 1.0
C2_Witness ==
    /\ ReturnedSuccess
    /\ Len(date_entities) > 1
    /\ Len(time_entities) > 1
    /\ result.confidence = 10
    /\ result.detected_time = Str(<<"5", ":", "30pm">>)

\* C3: on the success path the confidence is 0.0 with no candidate, 0.5 with
\* date candidates only, 0.3 with time candidates only and 1.0 with both,
\* however many candidates there are
C3_ConfidenceBySignals ==
    ReturnedSuccess =>
        result.confidence =
            (IF date_entities # <<>> /\ time_entities # <<>> THEN 10
             ELSE IF date_entities # <<>> THEN 5
             ELSE IF time_entities # <<>> THEN 3
             ELSE 0)

\* a success with three date candidates and no time candidate, at 0.5
C3_Witness ==
    /\ ReturnedSuccess
    /\ Len(date_entities) >= 3
    /\ time_entities = <<>>
    /\ result.confidence = 5

\* C4: the record returned after a fault has detected_date None,
\* detected_time None, confidence 0.0 and a diagnostic; no field of it comes
\* from what was computed before the fault
C4_FaultResultIsBlank ==
    ReturnedFault =>
        /\ DOMAIN result = {"detected_date", "detected_time", "confidence",
                            "extracted_text", "suggested_title", "error"}
        /\ result.detected_date = NoneVal
        /\ result.detected_time = NoneVal
        /\ result.confidence = 0
        /\ result.suggested_title = NoneVal
        /\ result.extracted_text = Str(text)
        /\ result.error.kind = "str"

\* the fault came after a date and a time were selected, the confidence was
\* at 1.0 and a title was composed
C4_Witness ==
    /\ ReturnedFault
    /\ exc.site = "debug"
    /\ scheduling_info.detected_date # NoneVal
    /\ scheduling_info.detected_time # NoneVal
    /\ scheduling_info.confidence = 10
    /\ scheduling_info.suggested_title # NoneVal

\* C5: every record returned, on the success path and on the fault path, has
\* the keys suggested_title, detected_date, detected_time, confidence and
\* entities, and entities has people and places
C5_ResultKeys ==
    Returned =>
        /\ {"suggested_title", "detected_date", "detected_time", "confidence",
            "entities"} \subseteq DOMAIN result
        /\ {"people", "places"} \subseteq DOMAIN result.entities

\* C6: the date candidates are the parses of the numeric dates in the order
\* of the text, then the relative matches; once a numeric date was parsed,
\* detected_date is the first such parse, in the working record and in the
\* record returned on the success path, wherever a relative phrase stands
C6_AbsoluteBeforeRelative ==
    /\ RelativeDone =>
          LET parses == Parses
          IN  /\ Len(date_entities) >= Len(parses)
              /\ \A i \in 1..Len(parses) :
                    /\ date_entities[i].date = parses[i].out
                    /\ date_entities[i].text = parses[i].arg
              /\ \A i \in 1..Len(date_entities) :
                    i > Len(parses) =>
                        \E k \in 1..Len(Vocabulary) :
                            date_entities[i].date =
                                DateTime(now.day + Vocabulary[k].days, now.tz)
    /\ (Combined /\ parser_calls # <<>>) =>
          LET parses == Parses
          IN  parses # <<>> =>
                  /\ scheduling_info.detected_date = parses[1].out
                  /\ ReturnedSuccess => result.detected_date = parses[1].out

\* "tomorrow" stands before the numeric date, two numeric dates were parsed,
\* and the date returned is the parse of the first numeric date
C6_Witness ==
    /\ ReturnedSuccess
    /\ Len(text) > 1
    /\ text[1] = "tomorrow"
    /\ Len(Parses) = 1
    /\ Len(date_entities) = 2
    /\ result.detected_date = ParsedDate(Parses[1].arg)
    /\ result.detected_date # PlusDays(now, 1)

\* C7: with no numeric date parsed and several vocabulary phrases standing in
\* the text as whole words, detected_date is now plus the offset of the
\* phrase that is first in the table, wherever the phrases stand in the text
C7_TableOrder ==
    ((JustCombined \/ ReturnedSuccess) /\ Parses = <<>>) =>
        LET occ == Occurring
            first == CHOOSE k \in occ : \A l \in occ : k <= l
            expected == DateTime(now.day + Vocabulary[first].days, now.tz)
        IN  Cardinality(occ) >= 2 =>
                /\ scheduling_info.detected_date = expected
                /\ ReturnedSuccess => result.detected_date = expected

\* "next week" stands before "today" in the text and today's date is returned
C7_Witness ==
    /\ ReturnedSuccess
    /\ text = <<"next", " ", "week", " ", "today">>
    /\ result.detected_date = now

\* C8: a vocabulary phrase that stands in the text as whole words, with no
\* numeric date and no other vocabulary phrase in the text, gives
\* detected_date = now plus the offset the specification lists for it, and a
\* confidence of at least 0.5
C8_RelativeOffsets ==
    ((JustCombined \/ ReturnedSuccess) /\ ~HoldsNumericDate(text)) =>
        LET occ == Occurring
        IN  \A k \in occ :
                occ = {k} =>
                    LET expected == DateTime(now.day + Vocabulary[k].days, now.tz)
                    IN  /\ scheduling_info.detected_date = expected
                        /\ scheduling_info.confidence >= 5
                        /\ ReturnedSuccess =>
                              /\ result.detected_date = expected
                              /\ result.confidence >= 5

\* "next month" alone, in a zone a day ahead of the host: 30 days from now
C8_Witness ==
    /\ ReturnedSuccess
    /\ text = <<"next", " ", "month">>
    /\ now = DateTime(HostDay + 1, "Asia/Tokyo")
    /\ result.detected_date = DateTime(HostDay + 31, "Asia/Tokyo")
    /\ result.confidence = 5

C10_UnparsedMatchDropped ==
    /\ \A i \in 1..Len(parser_calls) :
          ~IsParse(parser_calls[i]) =>
              \A j \in 1..Len(date_entities) : date_entities[j].text # parser_calls[i].arg
    /\ Len(parser_calls) = mi - 1
    /\ RelativeDone => Len(parser_calls) = Len(NumericDateMatches(text, 1))
    /\ RelativeDone =>
          Len(date_entities) = Len(Parses) + Cardinality({k \in 1..Len(relative_date_patterns) :
                                   PhraseFound(relative_date_patterns[k].pattern, text_lower)})
    /\ exc # NoExc => exc.site \in {"nlp", "debug"}
    /\ (ReturnedSuccess /\ SomeParserFailure) => "error" \notin DOMAIN result
    /\ (JustCombined /\ Parses = <<>> /\ Occurring = {}) =>
          /\ scheduling_info.detected_date = NoneVal
          /\ scheduling_info.confidence = (IF time_entities # <<>> THEN 3 ELSE 0)

\* the parser raised on the first match and parsed the second, whose date is
\* returned on the success path
C10_Witness ==
    /\ ReturnedSuccess
    /\ Len(parser_calls) = 2
    /\ parser_calls[1].out = ParserRaises
    /\ IsParse(parser_calls[2])
    /\ result.detected_date = parser_calls[2].out
    /\ result.confidence = 5
    /\ "error" \notin DOMAIN result

\* a word of the vocabulary stands in t inside a longer word and nowhere as a
\* word of its own
EmbeddedOnly(p, t) ==
    /\ Len(p) = 1
    /\ ~OccursAsWords(p, t)
    /\ \E i \in 1..Len(t) : p[1] \in ProperInfixes(t[i])

SomeEmbeddedOnly ==
    \E i \in 1..Len(text) :
        \E w \in ProperInfixes(LowerAtom(text[i])) : EmbeddedOnly(<<w>>, Lower(text))

\* C11: a vocabulary phrase that stands in the lower-cased text only inside a
\* longer word ("today" in "todays", "tmr" in "tmrx") is no date candidate,
\* and when nothing else gives a date the date stays None and the confidence
\* is that of the time signal alone
C11_WholeWordsOnly ==
    /\ (RelativeDone /\ SomeEmbeddedOnly) =>
          \A k \in 1..Len(Vocabulary) :
              EmbeddedOnly(Vocabulary[k].phrase, text_lower) =>
                  \A j \in 1..Len(date_entities) :
                      date_entities[j].text # Vocabulary[k].phrase
    /\ (JustCombined /\ SomeEmbeddedOnly /\ Parses = <<>> /\ Occurring = {}) =>
          /\ date_entities = <<>>
          /\ scheduling_info.detected_date = NoneVal
          /\ scheduling_info.confidence = (IF time_entities # <<>> THEN 3 ELSE 0)

\* "todays 5:30pm": no date, the time alone, returned at 0.3
C11_Witness ==
    /\ ReturnedSuccess
    /\ text = <<"todays", " ", "5", ":", "30pm">>
    /\ date_entities = <<>>
    /\ result.detected_date = NoneVal
    /\ result.confidence = 3

\* the place in the pattern table of the pattern a time text is a match of:
\* one with a colon is H:MM, a named period is a period, any other is H am/pm
PatternRank(s) ==
    IF \E i \in 1..Len(s) : s[i] = ":" THEN 1
    ELSE IF s[1] \in {"morning", "afternoon", "evening", "night", "noon", "midnight"}
         THEN 3
         ELSE 2

\* H:MM with an optional am/pm stands in t as whole words
HoldsClockTime(t) ==
    \E i \in 1..Len(t) :
        /\ i + 2 <= Len(t)
        /\ IsDigits(t[i], 1, 2)
        /\ t[i+1] = ":"
        /\ DigitPrefix(t[i+2]) = 2
        /\ Rest(t[i+2]) \in {"", "am", "pm"}

TimePassDone == pc \in {"combine", "nlp"}

\* C12: the time candidates stand in the order of the pattern table, and in
\* the order of the text within one pattern; each is the text matched in the
\* lower-cased text, as it is written there; detected_time is the text of the
\* first candidate, so it is an H:MM text whenever the text holds one
C12_TimeOrder ==
    /\ TimePassDone =>
          /\ \A i, j \in 1..Len(time_entities) :
                i < j =>
                    LET ri == PatternRank(time_entities[i].text.v)
                        rj == PatternRank(time_entities[j].text.v)
                    IN  \/ ri < rj
                        \/ ri = rj /\ time_entities[i].start < time_entities[j].start
          /\ \A i \in 1..Len(time_entities) :
                time_entities[i].text.v =
                    SubSeq(Lower(text), time_entities[i].start, time_entities[i].end)
          /\ HoldsClockTime(Lower(text)) =>
                /\ time_entities # <<>>
                /\ PatternRank(time_entities[1].text.v) = 1
    /\ (JustCombined \/ ReturnedSuccess) =>
          LET first == IF time_entities = <<>> THEN NoneVal ELSE time_entities[1].text
          IN  /\ scheduling_info.detected_time = first
              /\ ReturnedSuccess => result.detected_time = first

\* "noon 5:30pm": the candidates are 5:30pm, 30pm and noon, and 5:30pm is
\* returned as it is written
C12_Witness ==
    /\ ReturnedSuccess
    /\ text = <<"noon", " ", "5", ":", "30pm">>
    /\ Len(time_entities) = 3
    /\ time_entities[3].text = Str(<<"noon">>)
    /\ result.detected_time = Str(<<"5", ":", "30pm">>)

\* the token texts and entity texts of the Doc nlp() returned
IsNounToken(tok) == tok.pos_ \in {"NOUN", "PROPN"}
NounWords == [i \in DOMAIN SelectSeq(doc.tokens, IsNounToken) |->
                 SelectSeq(doc.tokens, IsNounToken)[i].text]
IsPersonEnt(e) == e.label_ = "PERSON"
IsPlaceEnt(e) == e.label_ = "GPE" \/ e.label_ = "LOC"
PersonWords == [i \in DOMAIN SelectSeq(doc.ents, IsPersonEnt) |->
                   SelectSeq(doc.ents, IsPersonEnt)[i].text]
PlaceWords == [i \in DOMAIN SelectSeq(doc.ents, IsPlaceEnt) |->
                  SelectSeq(doc.ents, IsPlaceEnt)[i].text]

\* the words ws written one after the other with sep between them
RECURSIVE Spell(_, _)
Spell(ws, sep) ==
    IF ws = <<>> THEN <<>>
    ELSE IF Len(ws) = 1 THEN <<ws[1]>>
    ELSE <<ws[1]>> \o sep \o Spell(Tail(ws), sep)

\* two parts of a title with a blank between them, when both are there
Glue(x, y) == IF x = <<>> THEN y ELSE IF y = <<>> THEN x ELSE x \o <<" ">> \o y

CoreTitle == Spell(SubSeq(NounWords, 1, Min(3, Len(NounWords))), <<" ">>)
WithPeople == IF PersonWords = <<>> THEN <<>>
              ELSE <<"with", " ">> \o Spell(PersonWords, <<",", " ">>)
AtPlaces == IF PlaceWords = <<>> THEN <<>>
            ELSE <<"at", " ">> \o Spell(PlaceWords, <<",", " ">>)

\* C13: on the success path the title is the first three nouns at most,
\* joined by blanks, then "with " and the people joined by ", " when there
\* are people, then "at " and the places joined by ", " when there are
\* places, each part present exactly when its source is not empty
C13_TitleComposition ==
    ReturnedSuccess =>
        LET expected == Glue(Glue(CoreTitle, WithPeople), AtPlaces)
        IN  expected # <<>> => result.suggested_title = Str(expected)

\* "John Alps Paris": three nouns, one person and two places
C13_Witness ==
    /\ ReturnedSuccess
    /\ text = <<"John", " ", "Alps", " ", "Paris">>
    /\ result.suggested_title =
          Str(<<"John", " ", "Alps", " ", "Paris", " ", "with", " ", "John", " ",
                "at", " ", "Alps", ",", " ", "Paris">>)

\* C14: when the Doc gives no noun, no person and no place the title
\* returned is "Reminder", and in every record returned, on the success path
\* and on the fault path, suggested_title is a string that is not empty
C14_TitleNeverEmpty ==
    /\ (ReturnedSuccess /\ CoreTitle = <<>> /\ WithPeople = <<>> /\ AtPlaces = <<>>) =>
          result.suggested_title = Str(<<"Reminder">>)
    /\ Returned =>
          /\ result.suggested_title.kind = "str"
          /\ result.suggested_title.v # <<>>

\* C15: entities.people is the texts of the entities labelled PERSON and
\* entities.places the texts of the entities labelled GPE or LOC, each in the
\* order of the Doc, which is the order of the text; an entity of any other
\* label is in neither
C15_PeopleAndPlaces ==
    ReturnedSuccess =>
        /\ result.entities.people = [i \in DOMAIN PersonWords |-> <<PersonWords[i]>>]
        /\ result.entities.places = [i \in DOMAIN PlaceWords |-> <<PlaceWords[i]>>]
        /\ Len(result.entities.people) + Len(result.entities.places) =
              Cardinality({i \in 1..Len(doc.ents) :
                              doc.ents[i].label_ \in {"PERSON", "GPE", "LOC"}})

\* "John Alps Paris": one PERSON, then a LOC and a GPE in the order of the
\* text
C15_Witness ==
    /\ ReturnedSuccess
    /\ text = <<"John", " ", "Alps", " ", "Paris">>
    /\ Len(doc.ents) = 3
    /\ doc.ents[2].label_ = "LOC"
    /\ doc.ents[3].label_ = "GPE"
    /\ result.entities.people = << <<"John">> >>
    /\ result.entities.places = << <<"Alps">>, <<"Paris">> >>

\* the hint is a name and pytz does not know it
InvalidHint == user_timezone # NoHint /\ user_timezone \notin KnownZones

\* the date candidates the parser's outcomes of this call give
RECURSIVE ParsedEntries(_)
ParsedEntries(log) ==
    IF log = <<>> THEN <<>>
    ELSE (IF IsParse(Head(log))
          THEN << [text |-> Head(log).arg, date |-> Head(log).out] >>
          ELSE <<>>) \o ParsedEntries(Tail(log))

\* what the call returns with no hint, at the same instant and with the same
\* outcomes of the parser and of nlp()
ResultWithNoHint ==
    LET anchor == DateTime(HostDay, ResolveTz(NoHint))
        dates == WithRelative(ParsedEntries(parser_calls), Lower(text), anchor)
        times == TimeEntries(1, Lower(text))
        info == AddJointBonus(SuggestTitle(
                    CombineTime(CombineDate(InitialInfo(text), dates), times), doc))
        ents == ExtractEntities(doc)
    IN  SuccessResult(ComposeTitle(info, ents), info, ents)

\* C16: with a hint pytz does not know, the zone is the host's local zone and
\* now is the host's now, no exception comes from the hint, the call does not
\* end raised, and the record returned is the one a call with no hint returns
C16_InvalidZoneFallsBack ==
    InvalidHint =>
        /\ pc # "start" =>
              /\ tz = "local"
              /\ now = DateTime(HostDay, "local")
        /\ pc # "raised"
        /\ exc # NoExc => exc.site \in {"nlp", "debug"}
        /\ ReturnedSuccess => result = ResultWithNoHint

\* "tomorrow" with the hint Mars/Phobos: the host's tomorrow
C16_Witness ==
    /\ ReturnedSuccess
    /\ user_timezone = "Mars/Phobos"
    /\ text = <<"tomorrow">>
    /\ "error" \notin DOMAIN result
    /\ result.detected_date = DateTime(HostDay + 1, "local")

\* the hint names a zone pytz knows
ValidHint == user_timezone \in KnownZones

\* the offset in days the specification lists for a phrase; the dotted
\* spellings of the code's table are spellings of "tomorrow"
OffsetOf(p) ==
    IF \E k \in 1..Len(Vocabulary) : Vocabulary[k].phrase = p
    THEN Vocabulary[CHOOSE k \in 1..Len(Vocabulary) : Vocabulary[k].phrase = p].days
    ELSE 1

\* C17: with a hint that names a zone pytz knows, now is a date-time of that
\* zone, at the date of that zone, and every relative date candidate, and so
\* a detected_date that comes from the relative pass, is now plus the offset
\* of its phrase, in that zone
C17_AnchorInHintedZone ==
    ValidHint =>
        /\ pc # "start" =>
              /\ tz = user_timezone
              /\ now.kind = "datetime"
              /\ now.tz = user_timezone
              /\ now.day - HostDay \in {0, 1}
        /\ RelativeDone =>
              \A i \in 1..Len(date_entities) :
                  i > Len(Parses) =>
                      date_entities[i].date =
                          DateTime(now.day + OffsetOf(date_entities[i].text),
                                   user_timezone)
        /\ ((JustCombined \/ ReturnedSuccess) /\ Parses = <<>>) =>
              LET occ == Occurring
              IN  occ # {} =>
                      /\ scheduling_info.detected_date.tz = user_timezone
                      /\ scheduling_info.detected_date.day - now.day
                            \in {Vocabulary[k].days : k \in occ}
                      /\ ReturnedSuccess =>
                            result.detected_date = scheduling_info.detected_date

\* "tomorrow" asked from Tokyo while Tokyo is a day ahead of the host: two
\* days after the host's date
C17_Witness ==
    /\ ReturnedSuccess
    /\ user_timezone = "Asia/Tokyo"
    /\ text = <<"tomorrow">>
    /\ now = DateTime(HostDay + 1, "Asia/Tokyo")
    /\ result.detected_date = DateTime(HostDay + 2, "Asia/Tokyo")

\* C18: a detected_date that is not None is a date-time of the zone the call
\* resolved, in the working record and in the record returned, whether it
\* comes from the numeric-date pass or from the relative pass
C18_DateInResolutionZone ==
    /\ (scheduling_info # NoneVal /\ scheduling_info.detected_date # NoneVal) =>
          scheduling_info.detected_date.tz = tz
    /\ (ReturnedSuccess /\ result.detected_date # NoneVal) =>
          result.detected_date.tz = tz

\* the confidence the success path gives a call with these candidates
ConfidenceFor(dates, times) ==
    AddJointBonus(CombineTime(CombineDate(InitialInfo(<<>>), dates), times)).confidence

\* the kinds of signal found
SignalKinds(dates, times) ==
    (IF dates # <<>> THEN {"date"} ELSE {}) \cup (IF times # <<>> THEN {"time"} ELSE {})

\* candidate sequences of other calls: none, one, and those of this call
OtherDates ==
    {<<>>, << [text |-> <<"today">>, date |-> DateTime(HostDay, "local")] >>, date_entities}
OtherTimes ==
    {<<>>, << [text |-> Str(<<"noon">>), start |-> 1, end |-> 1] >>, time_entities}

\* C19: the confidence returned on the success path is that of the kinds of
\* signal found, and against the confidence of any other success it is
\* lower or equal when its kinds are among the other's and higher or equal
\* when the other's kinds are among its own
C19_ConfidenceMonotone ==
    ReturnedSuccess =>
        /\ result.confidence = ConfidenceFor(date_entities, time_entities)
        /\ \A d \in OtherDates, t \in OtherTimes :
              LET mine == SignalKinds(date_entities, time_entities)
                  other == SignalKinds(d, t)
              IN  /\ other \subseteq mine => ConfidenceFor(d, t) <= result.confidence
                  /\ mine \subseteq other => result.confidence <= ConfidenceFor(d, t)

\* a success with a date and a time at 1.0, above the 0.5 of its dates alone
\* and the 0.3 of its times alone
C19_Witness ==
    /\ ReturnedSuccess
    /\ SignalKinds(date_entities, time_entities) = {"date", "time"}
    /\ result.confidence = 10
    /\ ConfidenceFor(date_entities, <<>>) = 5
    /\ ConfidenceFor(<<>>, time_entities) = 3
    /\ ConfidenceFor(<<>>, <<>>) = 0

\* C20: for the empty text, the lower-cased copy is empty, neither pass finds
\* a candidate, nlp() is given the empty text, and the record returned on the
\* success path has detected_date None, detected_time None, confidence 0.0
\* and the title "Reminder"; the text itself is the cause of no fault
C20_EmptyText ==
    text = <<>> =>
        /\ pc # "start" => text_lower = <<>>
        /\ date_entities = <<>>
        /\ time_entities = <<>>
        /\ parser_calls = <<>>
        /\ doc # NoneVal => doc.tokens = <<>> /\ doc.ents = <<>>
        /\ exc # NoExc => exc.site \in {"nlp", "debug"}
        /\ pc # "raised"
        /\ ReturnedSuccess =>
              /\ result.detected_date = NoneVal
              /\ result.detected_time = NoneVal
              /\ result.confidence = 0
              /\ result.suggested_title = Str(<<"Reminder">>)
              /\ result.entities.people = <<>>
              /\ result.entities.places = <<>>
              /\ "error" \notin DOMAIN result

\* the empty text went through nlp() and was returned on the success path
C20_Witness ==
    /\ text = <<>>
    /\ ReturnedSuccess
    /\ nlp_arg = Str(<<>>)
    /\ result.suggested_title = Str(<<"Reminder">>)
    /\ result.confidence = 0

\* the date candidates of the numeric-date pass of a call on the text t: the
\* matches of the scan that the parser parses
RECURSIVE ParsableEntries(_)
ParsableEntries(ms) ==
    IF ms = <<>> THEN <<>>
    ELSE (IF ParsableDate(Head(ms))
          THEN << [text |-> Head(ms), date |-> ParsedDate(Head(ms))] >>
          ELSE <<>>) \o ParsableEntries(Tail(ms))

\* the working record after lines 265-271 of a call on the text t at the
\* instant anchor
CombinedInfoOf(t, anchor) ==
    CombineTime(
        CombineDate(InitialInfo(t),
                    WithRelative(ParsableEntries(NumericDateMatches(t, 1)),
                                 Lower(t), anchor)),
        TimeEntries(1, Lower(t)))

\* C21: the relative dates found, detected_time and the confidence of a call
\* are those of the call on the lower-cased text at the same instant, and
\* nlp() is given the text as it came
C21_CaseInsensitive ==
    /\ JustCombined =>
          LET low == Lower(text)
              lowInfo == CombinedInfoOf(low, now)
          IN  /\ RelativeEntries(1, text_lower, now) = RelativeEntries(1, Lower(low), now)
              /\ scheduling_info.detected_time = lowInfo.detected_time
              /\ scheduling_info.confidence = lowInfo.confidence
    /\ nlp_arg # NoneVal => nlp_arg = Str(text)

---------------------------------------------------------------------------
(* Several calls of extract_scheduling_info in flight.  The function has   *)
(* no await, so an event loop runs each call in one piece; the steps are   *)
(* interleaved here all the same, as threads would interleave them.  Each  *)
(* call has its locals; the names of the module are in module_state.       *)

Calls == {"a", "b"}

ConcTexts ==
    { <<"today">>, <<"tomorrow", " ", "5", ":", "30pm">>,
      <<"John", " ", "25", "/", "12", "/", "2024">> }

\* the locals of a call that has not run yet
NewCall(t, hint) ==
    [text |-> t, user_timezone |-> hint, pc |-> "start", now |-> NoneVal,
     scheduling_info |-> NoneVal, date_entities |-> <<>>, time_entities |-> <<>>,
     doc |-> NoneVal, entities |-> NoneVal, final_title |-> NoneVal,
     exc |-> NoExc, result |-> NoResult]

\* lines 188-271 of a call, at the instant anchor: a match of the scan that
\* the parser does not parse is dropped, whether line 213 returns None or
\* raises
Extracted(call, anchor) ==
    LET dates == WithRelative(ParsableEntries(NumericDateMatches(call.text, 1)),
                              Lower(call.text), anchor)
        times == TimeEntries(1, Lower(call.text))
    IN  [call EXCEPT !.now = anchor,
                     !.date_entities = dates,
                     !.time_entities = times,
                     !.scheduling_info =
                         CombineTime(CombineDate(InitialInfo(call.text), dates), times),
                     !.pc = "nlp"]

\* lines 274-300 of a call to which nlp() returned d
Synthesized(call, d) ==
    LET info == AddJointBonus(SuggestTitle(call.scheduling_info, d))
        ents == ExtractEntities(d)
    IN  [call EXCEPT !.doc = d,
                     !.scheduling_info = info,
                     !.entities = ents,
                     !.final_title = ComposeTitle(info, ents),
                     !.pc = "emit"]

InitCalls ==
    /\ calls \in [Calls -> {NewCall(t, h) : t \in ConcTexts, h \in {NoHint, "Asia/Tokyo"}}]
    /\ module_state = [nlp |-> "en_core_web_sm"]
    /\ NoCall
    /\ NoApi
    /\ NoAuth
    /\ NoReminders

\* variant: scheduling_info is one dict of the module, which every call in
\* flight works on
CallExtractShared(c) ==
    /\ calls[c].pc = "start"
    /\ \E shift \in DayShifts(ResolveTz(calls[c].user_timezone)) :
          LET mine == Extracted(calls[c],
                                DateTime(HostDay + shift,
                                         ResolveTz(calls[c].user_timezone)))
          IN  calls' = [d \in Calls |->
                            IF d = c THEN mine
                            ELSE IF calls[d].pc \in {"nlp", "emit"}
                                 THEN [calls[d] EXCEPT !.scheduling_info =
                                                           mine.scheduling_info]
                                 ELSE calls[d]]
    /\ UNCHANGED <<module_state, callVars, apiVars, authVars, remVars>>

\* lines 188-271 of call c
CallExtract(c) ==
    /\ calls[c].pc = "start"
    /\ \E shift \in DayShifts(ResolveTz(calls[c].user_timezone)) :
          calls' = [calls EXCEPT ![c] =
                        Extracted(@, DateTime(HostDay + shift,
                                              ResolveTz(calls[c].user_timezone)))]
    /\ UNCHANGED <<module_state, callVars, apiVars, authVars, remVars>>

\* lines 274-300 of call c: nlp, a name of the module, is read and called
CallSynthesize(c) ==
    /\ calls[c].pc = "nlp"
    /\ module_state.nlp # ""
    /\ \E out \in NlpOutcomes(calls[c].text) :
          calls' = [calls EXCEPT ![c] =
                        IF out.kind = "exc"
                        THEN [@ EXCEPT !.exc = out, !.pc = "except"]
                        ELSE Synthesized(@, out)]
    /\ UNCHANGED <<module_state, callVars, apiVars, authVars, remVars>>

\* lines 302-309 of call c
CallEmit(c) ==
    /\ calls[c].pc = "emit"
    /\ \/ calls' = [calls EXCEPT ![c].result =
                        SuccessResult(calls[c].final_title, calls[c].scheduling_info,
                                      calls[c].entities),
                                 ![c].pc = "done"]
       \/ calls' = [calls EXCEPT ![c].exc = Raised("UnicodeEncodeError", "debug"),
                                 ![c].pc = "except"]
    /\ UNCHANGED <<module_state, callVars, apiVars, authVars, remVars>>

\* lines 311-319 of call c
CallExcept(c) ==
    /\ calls[c].pc = "except"
    /\ calls' = [calls EXCEPT ![c].result = FaultResult(calls[c].text, calls[c].exc),
                              ![c].pc = "done"]
    /\ UNCHANGED <<module_state, callVars, apiVars, authVars, remVars>>

NextCalls ==
    \E c \in Calls :
        \/ CallExtract(c)
        \/ CallSynthesize(c)
        \/ CallEmit(c)
        \/ CallExcept(c)

SpecCalls == InitCalls /\ [][NextCalls]_vars

\* what a call returns when it runs alone with the text, the hint, the instant
\* and the outcome of nlp() that the call c had
AloneResult(call) ==
    IF call.exc # NoExc THEN FaultResult(call.text, call.exc)
    ELSE LET alone == Synthesized(Extracted(NewCall(call.text, call.user_timezone),
                                            call.now), call.doc)
         IN  SuccessResult(alone.final_title, alone.scheduling_info, alone.entities)

\* C22: in every step of several calls in flight, no name of the module is
\* written, the step of one call leaves the locals of every other call as
\* they are, and a call that has returned has returned what it returns when
\* it runs alone
C22_NoSharedState ==
    [][ /\ module_state' = module_state
        /\ \A c \in Calls :
              calls'[c] # calls[c] => \A d \in Calls \ {c} : calls'[d] = calls[d]
        /\ \A c \in Calls :
              calls'[c].pc = "done" => calls'[c].result = AloneResult(calls'[c]) ]_vars

\* call b ran from its first line to its return while call a was between
\* line 271 and line 274, and the two have different texts
C22_Witness ==
    /\ pc = "idle"
    /\ calls["a"].pc = "nlp"
    /\ calls["b"].pc = "done"
    /\ calls["b"].exc = NoExc
    /\ calls["a"].text # calls["b"].text
    /\ calls["b"].result.confidence # calls["a"].scheduling_info.confidence

---------------------------------------------------------------------------
(* One-time passwords: request-login-otp and login-with-otp of main.py,    *)
(* over set_user_otp and verify_user_otp of crud.py.  A row of users is    *)
(* its otp and otp_expires_at; time is datetime.utcnow() in minutes.  A    *)
(* write to the database (a commit) succeeds or raises, as the handlers    *)
(* around the writes expect; request-login-otp awaits between its steps,   *)
(* so other requests are served between them.                              *)

\* timedelta(minutes=10) of set_user_otp
OtpLifetime == 10
\* the clock advances by TickStep minutes, up to MaxClock
TickStep == 5
MaxClock == 15

\* what str(random.randint(100000, 999999)) can give
Codes == {"111111", "222222"}
\* what a client can submit as a code: "12ab" is no 6-digit number
SubmittedCodes == Codes \cup {"12ab"}

\* a datetime of the clock, and a row of users
Utc(t) == [kind |-> "datetime", minute |-> t]
Row(otp, expires) == [otp |-> otp, otp_expires_at |-> expires]

\* a response of an /auth endpoint to a request for email e that submitted
\* code: the status, the detail of the error, the otp and the token of the
\* body, and whether send_otp_email delivered a mail on the way
AuthResponse(op, e, code, status, detail, otp, token, mailed) ==
    [op |-> op, email |-> e, submitted |-> code, status |-> status,
     detail |-> detail, otp |-> otp, access_token |-> token, mailed |-> mailed]

\* variant: a stored code never expires
ExpiredNever(row, t) == FALSE

\* crud.py line 77: user.otp_expires_at < datetime.utcnow()
Expired(row, t) == row.otp_expires_at.minute < t

\* crud.py lines 74-83: whether verify_user_otp goes on to accept the code
verify_user_otp(e, code) ==
    /\ users[e] # NoneVal
    /\ users[e].otp \notin {NoneVal, Str("")}
    /\ users[e].otp_expires_at # NoneVal
    /\ ~Expired(users[e], utcnow)
    /\ users[e].otp = Str(code)

\* variant: an accepted code stays stored
UsedRowKept(row) == row

\* crud.py lines 86-87: the row after its code was accepted
UsedRow(row) == Row(NoneVal, NoneVal)

\* crud.py lines 66-67: the row after set_user_otp(db, user, otp) at time t
set_user_otp(otp, t) == Row(otp, Utc(t + OtpLifetime))

\* ann@x is registered and has no code, bob@x is not registered
InitLogin ==
    /\ users = [e \in Emails |-> IF e = "ann@x" THEN Row(NoneVal, NoneVal) ELSE NoneVal]
    /\ utcnow = 0
    /\ mail_configured \in BOOLEAN
    /\ login_req = [pc |-> "idle"]
    /\ auth_response = NoneVal
    /\ issued = {}
    /\ NoCall
    /\ calls = <<>>
    /\ module_state = [nlp |-> "en_core_web_sm"]
    /\ NoApi
    /\ NoReminders

\* main.py lines 160-208: the lookup of the user and the new code.  The 404
\* of line 190 is raised inside the try of line 187, whose handler of line
\* 192 catches Exception, and HTTPException is one: what leaves is the 500
\* of line 194, which line 248 passes on
RequestLoginOtp(e) ==
    /\ login_req.pc = "idle"
    /\ IF users[e] = NoneVal
       THEN /\ auth_response' = AuthResponse("request_login_otp", e, NoneVal, 500,
                                             "Database error: 404: User not found",
                                             NoneVal, FALSE, FALSE)
            /\ UNCHANGED login_req
       ELSE /\ \E otp \in Codes : login_req' = [pc |-> "store", email |-> e, otp |-> otp]
            /\ UNCHANGED auth_response
    /\ UNCHANGED <<users, utcnow, mail_configured, issued>>
    /\ UNCHANGED <<callVars, concVars, apiVars, remVars>>

\* main.py lines 210-228: set_user_otp stores the code, or raises and the
\* request ends with a 500; without mail settings the code is the response
StoreOtp ==
    /\ login_req.pc = "store"
    /\ \/ /\ users' = [users EXCEPT ![login_req.email] =
                                        set_user_otp(Str(login_req.otp), utcnow)]
          /\ IF mail_configured
             THEN /\ login_req' = [login_req EXCEPT !.pc = "mail"]
                  /\ UNCHANGED auth_response
             ELSE /\ login_req' = [pc |-> "idle"]
                  /\ auth_response' = AuthResponse("request_login_otp", login_req.email,
                                                   NoneVal, 200, "", Str(login_req.otp),
                                                   FALSE, FALSE)
       \/ /\ login_req' = [pc |-> "idle"]
          /\ auth_response' = AuthResponse("request_login_otp", login_req.email,
                                           NoneVal, 500, "Database save error",
                                           NoneVal, FALSE, FALSE)
          /\ UNCHANGED users
    /\ UNCHANGED <<utcnow, mail_configured, issued>>
    /\ UNCHANGED <<callVars, concVars, apiVars, remVars>>

\* main.py lines 230-235: send_otp_email delivers, or raises
SendOtpEmail ==
    /\ login_req.pc = "mail"
    /\ \/ /\ login_req' = [pc |-> "idle"]
          /\ auth_response' = AuthResponse("request_login_otp", login_req.email,
                                           NoneVal, 200, "", NoneVal, FALSE, TRUE)
       \/ /\ login_req' = [login_req EXCEPT !.pc = "clear"]
          /\ UNCHANGED auth_response
    /\ UNCHANGED <<users, utcnow, mail_configured, issued>>
    /\ UNCHANGED <<callVars, concVars, apiVars, remVars>>

\* main.py lines 236-246: set_user_otp(db, user, None) in a try whose bare
\* except passes, then the 500
ClearOtp ==
    /\ login_req.pc = "clear"
    /\ \/ users' = [users EXCEPT ![login_req.email] = set_user_otp(NoneVal, utcnow)]
       \/ UNCHANGED users
    /\ login_req' = [pc |-> "idle"]
    /\ auth_response' = AuthResponse("request_login_otp", login_req.email, NoneVal,
                                     500, "Failed to send OTP email", NoneVal,
                                     FALSE, FALSE)
    /\ UNCHANGED <<utcnow, mail_configured, issued>>
    /\ UNCHANGED <<callVars, concVars, apiVars, remVars>>

\* main.py lines 260-283 and crud.py lines 72-92: None from verify_user_otp
\* is a 400; the commit of line 89 or the history record of line 280 can
\* raise, a 500
LoginWithOtp(e, code) ==
    /\ IF ~verify_user_otp(e, code)
       THEN /\ auth_response' = AuthResponse("login_with_otp", e, Str(code), 400,
                                             "Invalid or expired OTP", NoneVal,
                                             FALSE, FALSE)
            /\ UNCHANGED users
       ELSE \/ /\ users' = [users EXCEPT ![e] = UsedRow(@)]
               /\ \/ auth_response' = AuthResponse("login_with_otp", e, Str(code), 200,
                                                   "", NoneVal, TRUE, FALSE)
                  \/ auth_response' = AuthResponse("login_with_otp", e, Str(code), 500,
                                                   "login history", NoneVal,
                                                   FALSE, FALSE)
            \/ /\ auth_response' = AuthResponse("login_with_otp", e, Str(code), 500,
                                                "commit", NoneVal, FALSE, FALSE)
               /\ UNCHANGED users
    /\ UNCHANGED <<utcnow, mail_configured, login_req, issued>>
    /\ UNCHANGED <<callVars, concVars, apiVars, remVars>>

\* time passes
Tick ==
    /\ utcnow + TickStep <= MaxClock
    /\ utcnow' = utcnow + TickStep
    /\ UNCHANGED <<users, mail_configured, login_req, auth_response, issued>>
    /\ UNCHANGED <<callVars, concVars, apiVars, remVars>>

NextLogin ==
    \/ \E e \in Emails : RequestLoginOtp(e)
    \/ StoreOtp
    \/ SendOtpEmail
    \/ ClearOtp
    \/ \E e \in Emails, code \in SubmittedCodes : LoginWithOtp(e, code)
    \/ Tick

SpecLogin == InitLogin /\ [][NextLogin]_vars

\* a row without a stored code
NoCode(e) == users[e] # NoneVal /\ users[e].otp = NoneVal

\* C23: a login that succeeds leaves the user's otp and otp_expires_at
\* cleared; a user without a stored code has no code accepted; and a row
\* without a code gets one from set_user_otp alone, in a request-login-otp
C23_SingleUse ==
    /\ [][\A e \in Emails, code \in SubmittedCodes :
             (LoginWithOtp(e, code) /\ auth_response'.status = 200) =>
                 /\ users'[e] = Row(NoneVal, NoneVal)
                 /\ \A again \in SubmittedCodes : ~verify_user_otp(e, again)']_vars
    /\ [](\A e \in Emails :
             NoCode(e) => \A code \in SubmittedCodes : ~verify_user_otp(e, code))
    /\ [][\A e \in Emails :
             (NoCode(e) /\ ~NoCode(e)') =>
                 /\ login_req.pc = "store"
                 /\ login_req.email = e
                 /\ users'[e] = set_user_otp(Str(login_req.otp), utcnow)]_vars

\* a login has just succeeded with a code that was stored, and the row is
\* cleared
C23_Witness ==
    /\ auth_response # NoneVal
    /\ auth_response.op = "login_with_otp"
    /\ auth_response.status = 200
    /\ auth_response.submitted \in {Str(c) : c \in Codes}
    /\ users[auth_response.email] = Row(NoneVal, NoneVal)
    /\ utcnow > 0

\* C24: set_user_otp sets the expiry 10 minutes after the time of the call;
\* verify_user_otp accepts a code only when a non-empty code is stored, now
\* is not later than the stored expiry and the code is the stored one; a
\* rejected login leaves the table as it was
C24_Expiry ==
    [][ /\ \A e \in Emails :
              (users'[e] # users[e] /\ login_req.pc \in {"store", "clear"}
                                    /\ login_req'.pc # login_req.pc) =>
                  users'[e].otp_expires_at = Utc(utcnow + OtpLifetime)
        /\ \A e \in Emails, code \in SubmittedCodes :
              (LoginWithOtp(e, code) /\ (users' # users \/ auth_response'.status = 200)) =>
                  /\ users[e] # NoneVal
                  /\ users[e].otp \notin {NoneVal, Str("")}
                  /\ users[e].otp = Str(code)
                  /\ users[e].otp_expires_at # NoneVal
                  /\ utcnow <= users[e].otp_expires_at.minute
        /\ \A e \in Emails, code \in SubmittedCodes :
              (LoginWithOtp(e, code) /\ auth_response'.status = 400) =>
                  users' = users ]_vars

\* the stored code was submitted after its expiry and was rejected, and is
\* still stored
C24_Witness ==
    /\ auth_response # NoneVal
    /\ auth_response.op = "login_with_otp"
    /\ auth_response.status = 400
    /\ users[auth_response.email] # NoneVal
    /\ users[auth_response.email].otp = auth_response.submitted
    /\ users[auth_response.email].otp_expires_at.minute < utcnow

\* C25: request-login-otp for an email without a user answers 404 'User not
\* found', stores no code and sends no mail
C25_UnknownUser404 ==
    [][\A e \in Emails :
          (RequestLoginOtp(e) /\ users[e] = NoneVal) =>
              /\ auth_response'.status = 404
              /\ auth_response'.detail = "User not found"
              /\ ~auth_response'.mailed
              /\ users' = users]_vars

\* C26: when the mail failed, the request ends (with its 500) in a state
\* where no code is accepted for the user
C26_ClearedAfterMailFailure ==
    [][\A e \in Emails :
          (ClearOtp /\ login_req.email = e) =>
              /\ auth_response'.status = 500
              /\ \A code \in SubmittedCodes : ~verify_user_otp(e, code)']_vars

---------------------------------------------------------------------------
(* Registration with a one-time password: request-registration-otp and     *)
(* register-with-otp of main.py.  issued remembers which codes were        *)
(* generated for which address; the program keeps them nowhere.            *)

\* otp.isdigit() and len(otp) == 6
SixDigits(code) == code \in Codes

\* an empty table of users
InitRegistration ==
    /\ users = [e \in Emails |-> NoneVal]
    /\ utcnow = 0
    /\ mail_configured \in BOOLEAN
    /\ login_req = [pc |-> "idle"]
    /\ auth_response = NoneVal
    /\ issued = {}
    /\ NoCall
    /\ calls = <<>>
    /\ module_state = [nlp |-> "en_core_web_sm"]
    /\ NoApi
    /\ NoReminders

\* main.py lines 533-615: the code is generated and mailed, or returned in
\* the response without mail settings, and stored nowhere.  The 400 of line
\* 573 is raised inside the try of line 568, whose handler catches
\* Exception, and leaves as the 500 of line 577
RequestRegistrationOtp(e) ==
    /\ IF users[e] # NoneVal
       THEN /\ auth_response' = AuthResponse("request_registration_otp", e, NoneVal,
                                             500, "User check error", NoneVal,
                                             FALSE, FALSE)
            /\ UNCHANGED issued
       ELSE \E otp \in Codes :
               /\ issued' = issued \cup {<<e, otp>>}
               /\ IF ~mail_configured
                  THEN auth_response' = AuthResponse("request_registration_otp", e,
                                                     NoneVal, 200, "", Str(otp),
                                                     FALSE, FALSE)
                  ELSE \/ auth_response' = AuthResponse("request_registration_otp", e,
                                                        NoneVal, 200, "", NoneVal,
                                                        FALSE, TRUE)
                       \/ auth_response' = AuthResponse("request_registration_otp", e,
                                                        NoneVal, 500,
                                                        "Failed to send registration OTP email",
                                                        NoneVal, FALSE, FALSE)
    /\ UNCHANGED <<users, utcnow, mail_configured, login_req>>
    /\ UNCHANGED <<callVars, concVars, apiVars, remVars>>

\* main.py lines 629-682: with and without mail settings, any code of six
\* digits passes (lines 646-654); create_user can raise, a 500
RegisterWithOtp(e, code) ==
    /\ IF users[e] # NoneVal
       THEN /\ auth_response' = AuthResponse("register_with_otp", e, Str(code), 400,
                                             "Email already registered", NoneVal,
                                             FALSE, FALSE)
            /\ UNCHANGED users
       ELSE IF ~SixDigits(code)
       THEN /\ auth_response' = AuthResponse("register_with_otp", e, Str(code), 400,
                                             IF mail_configured THEN "Invalid OTP"
                                             ELSE "Invalid OTP format", NoneVal,
                                             FALSE, FALSE)
            /\ UNCHANGED users
       ELSE \/ /\ users' = [users EXCEPT ![e] = Row(NoneVal, NoneVal)]
               /\ auth_response' = AuthResponse("register_with_otp", e, Str(code), 200,
                                                "", NoneVal, TRUE, FALSE)
            \/ /\ auth_response' = AuthResponse("register_with_otp", e, Str(code), 500,
                                                "Registration failed", NoneVal,
                                                FALSE, FALSE)
               /\ UNCHANGED users
    /\ UNCHANGED <<utcnow, mail_configured, login_req, issued>>
    /\ UNCHANGED <<callVars, concVars, apiVars, remVars>>

NextRegistration ==
    \/ \E e \in Emails : RequestRegistrationOtp(e)
    \/ \E e \in Emails, code \in SubmittedCodes : RegisterWithOtp(e, code)

SpecRegistration == InitRegistration /\ [][NextRegistration]_vars

\* C29: register-with-otp creates the user, and returns a token, only for a
\* code that request-registration-otp generated before for the same address
C29_OnlyIssuedCodes ==
    [][\A e \in Emails, code \in SubmittedCodes :
          (RegisterWithOtp(e, code)
              /\ (users'[e] # users[e] \/ auth_response'.access_token)) =>
              <<e, code>> \in issued]_vars

---------------------------------------------------------------------------
(* The /reminders routes of main.py over the reminder functions of         *)
(* crud.py.  A request is a method and a path (its segments) made by an    *)
(* authenticated user: the user that the dependency get_current_user       *)
(* hands to the endpoint.  The routes are matched in the order in which    *)
(* main.py registers them, a parameter of a path taking any one segment;   *)
(* the conversion of reminder_id to int comes after the match.  A          *)
(* response is kept as its status and the ids of the reminders in its      *)
(* body.  scheduled_for is in days from now.                               *)

\* the ids the table can hold
MaxReminders == 2
\* days: int = 7 of get_upcoming_reminders
UpcomingDays == 7

UserIds == {1, 2}

\* the bodies a client sends: ReminderCreate
ReminderPayloads ==
    { [title |-> "call", scheduled_for |-> 3],
      [title |-> "trip", scheduled_for |-> 9] }

\* the last segment a client puts after /reminders/, and int() of it
IntOf == ("1" :> 1) @@ ("2" :> 2) @@ ("3" :> 3) @@ ("4" :> 4)
PathSegs == {"1", "2", "3", "upcoming"}

\* main.py lines 386-489: the routes in the order of their registration
Routes ==
    << [method |-> "POST", path |-> <<"reminders">>, endpoint |-> "create_reminder"],
       [method |-> "GET", path |-> <<"reminders">>, endpoint |-> "get_reminders"],
       [method |-> "GET", path |-> <<"reminders", "{reminder_id}">>,
        endpoint |-> "get_reminder"],
       [method |-> "PUT", path |-> <<"reminders", "{reminder_id}">>,
        endpoint |-> "update_reminder"],
       [method |-> "DELETE", path |-> <<"reminders", "{reminder_id}">>,
        endpoint |-> "delete_reminder"],
       [method |-> "GET", path |-> <<"reminders", "upcoming">>,
        endpoint |-> "get_upcoming_reminders"],
       [method |-> "POST", path |-> <<"reminders", "{reminder_id}", "complete">>,
        endpoint |-> "complete_reminder"],
       [method |-> "POST", path |-> <<"reminders", "{reminder_id}", "uncomplete">>,
        endpoint |-> "uncomplete_reminder"] >>

\* a route matches a request of its method whose path has its segments, a
\* parameter standing for any segment
RouteMatches(route, method, path) ==
    /\ route.method = method
    /\ Len(route.path) = Len(path)
    /\ \A i \in 1..Len(path) :
          route.path[i] = "{reminder_id}" \/ route.path[i] = path[i]

\* the endpoint of the first route that matches
Dispatch(method, path) ==
    LET hits == {k \in 1..Len(Routes) : RouteMatches(Routes[k], method, path)}
    IN  IF hits = {} THEN "not_found"
        ELSE Routes[CHOOSE k \in hits : \A j \in hits : k <= j].endpoint

\* what an endpoint leaves: the table and the response
Served(table, status, body) == [reminders |-> table, status |-> status, body |-> body]

\* variant: the reminder of that id, whoever owns it
get_reminder_by_id_any_owner(reminder_id, user_id) ==
    IF reminder_id \in DOMAIN reminders /\ reminders[reminder_id] # NoneVal
    THEN reminder_id
    ELSE 0

\* crud.py lines 122-128: the id of the reminder with that id and that
\* owner, or 0 for None
get_reminder_by_id(reminder_id, user_id) ==
    IF /\ reminder_id \in DOMAIN reminders
       /\ reminders[reminder_id] # NoneVal
       /\ reminders[reminder_id].user_id = user_id
    THEN reminder_id
    ELSE 0

\* main.py 386-396, crud.py 103-113: new_id is the key the database gives
create_reminder(user_id, data, new_id) ==
    Served([reminders EXCEPT ![new_id] =
                [user_id |-> user_id, title |-> data.title,
                 scheduled_for |-> data.scheduled_for, is_completed |-> FALSE]],
           200, {new_id})

\* main.py 398-407, crud.py 115-120
get_reminders(user_id) ==
    Served(reminders, 200,
           {i \in DOMAIN reminders :
               reminders[i] # NoneVal /\ reminders[i].user_id = user_id})

\* main.py 409-421
get_reminder(user_id, reminder_id) ==
    LET found == get_reminder_by_id(reminder_id, user_id)
    IN  IF found = 0 THEN Served(reminders, 404, {})
        ELSE Served(reminders, 200, {found})

\* main.py 423-436, crud.py 130-141
update_reminder(user_id, reminder_id, data) ==
    LET found == get_reminder_by_id(reminder_id, user_id)
    IN  IF found = 0 THEN Served(reminders, 404, {})
        ELSE Served([reminders EXCEPT ![found].title = data.title,
                                      ![found].scheduled_for = data.scheduled_for],
                    200, {found})

\* main.py 438-450, crud.py 148-156
delete_reminder(user_id, reminder_id) ==
    LET found == get_reminder_by_id(reminder_id, user_id)
    IN  IF found = 0 THEN Served(reminders, 404, {})
        ELSE Served([reminders EXCEPT ![found] = NoneVal], 200, {})

\* main.py 452-461, crud.py 163-176
get_upcoming_reminders(user_id) ==
    Served(reminders, 200,
           {i \in DOMAIN reminders :
               /\ reminders[i] # NoneVal
               /\ reminders[i].user_id = user_id
               /\ reminders[i].scheduled_for >= 0
               /\ reminders[i].scheduled_for <= UpcomingDays
               /\ ~reminders[i].is_completed})

\* main.py 463-489, crud.py 178-198: complete and uncomplete
set_completed(user_id, reminder_id, flag) ==
    LET found == get_reminder_by_id(reminder_id, user_id)
    IN  IF found = 0 THEN Served(reminders, 404, {})
        ELSE Served([reminders EXCEPT ![found].is_completed = flag], 200, {found})

\* the endpoint runs; one that declares reminder_id: int answers 422 to a
\* segment that is no integer, before its body runs
Handle(endpoint, user_id, path, data, new_id) ==
    IF endpoint = "not_found" THEN Served(reminders, 404, {})
    ELSE IF endpoint = "create_reminder" THEN create_reminder(user_id, data, new_id)
    ELSE IF endpoint = "get_reminders" THEN get_reminders(user_id)
    ELSE IF endpoint = "get_upcoming_reminders" THEN get_upcoming_reminders(user_id)
    ELSE IF path[2] \notin DOMAIN IntOf THEN Served(reminders, 422, {})
    ELSE IF endpoint = "get_reminder" THEN get_reminder(user_id, IntOf[path[2]])
    ELSE IF endpoint = "update_reminder"
         THEN update_reminder(user_id, IntOf[path[2]], data)
    ELSE IF endpoint = "delete_reminder" THEN delete_reminder(user_id, IntOf[path[2]])
    ELSE set_completed(user_id, IntOf[path[2]], endpoint = "complete_reminder")

\* a request of user_id is dispatched and served
Serve(user_id, method, path, data, new_id) ==
    LET endpoint == Dispatch(method, path)
        served == Handle(endpoint, user_id, path, data, new_id)
    IN  /\ reminders' = served.reminders
        /\ rem_response' = [method |-> method, path |-> path, user |-> user_id,
                            endpoint |-> endpoint, status |-> served.status,
                            body |-> served.body]
        /\ UNCHANGED <<callVars, concVars, apiVars, authVars>>

NoPayload == [title |-> "", scheduled_for |-> 0]

InitReminders ==
    /\ reminders = [i \in 1..MaxReminders |-> NoneVal]
    /\ rem_response = NoneVal
    /\ NoCall
    /\ calls = <<>>
    /\ module_state = [nlp |-> "en_core_web_sm"]
    /\ NoApi
    /\ NoAuth

\* POST /reminders
PostReminders(u, data) ==
    \E new_id \in {i \in DOMAIN reminders : reminders[i] = NoneVal} :
        Serve(u, "POST", <<"reminders">>, data, new_id)

\* GET /reminders
GetReminders(u) == Serve(u, "GET", <<"reminders">>, NoPayload, 0)

\* GET /reminders/seg
GetRemindersSeg(u, seg) == Serve(u, "GET", <<"reminders", seg>>, NoPayload, 0)

\* PUT /reminders/seg
PutRemindersSeg(u, seg, data) == Serve(u, "PUT", <<"reminders", seg>>, data, 0)

\* DELETE /reminders/seg
DeleteRemindersSeg(u, seg) == Serve(u, "DELETE", <<"reminders", seg>>, NoPayload, 0)

\* POST /reminders/seg/complete and POST /reminders/seg/uncomplete
PostRemindersSegFlag(u, seg, flag) ==
    Serve(u, "POST", <<"reminders", seg, flag>>, NoPayload, 0)

NextReminders ==
    \E u \in UserIds :
        \/ \E data \in ReminderPayloads : PostReminders(u, data)
        \/ GetReminders(u)
        \/ \E seg \in PathSegs : GetRemindersSeg(u, seg)
        \/ \E seg \in PathSegs, data \in ReminderPayloads : PutRemindersSeg(u, seg, data)
        \/ \E seg \in PathSegs : DeleteRemindersSeg(u, seg)
        \/ \E seg \in PathSegs, flag \in {"complete", "uncomplete"} :
              PostRemindersSegFlag(u, seg, flag)

SpecReminders == InitReminders /\ [][NextReminders]_vars

\* C27: GET /reminders/upcoming is served by get_upcoming_reminders, with
\* the upcoming reminders of the user
C27_UpcomingDispatched ==
    (rem_response # NoneVal /\ rem_response.method = "GET"
        /\ rem_response.path = <<"reminders", "upcoming">>) =>
        /\ rem_response.endpoint = "get_upcoming_reminders"
        /\ rem_response.status = 200
        /\ rem_response.body = get_upcoming_reminders(rem_response.user).body

\* the endpoints that take a reminder_id
PerIdEndpoints ==
    {"get_reminder", "update_reminder", "delete_reminder", "complete_reminder",
     "uncomplete_reminder"}

\* the request behind the response r named, before it was served, a
\* reminder of another user
NamesForeign(r) ==
    /\ r.endpoint \in PerIdEndpoints
    /\ r.path[2] \in DOMAIN IntOf
    /\ IntOf[r.path[2]] \in DOMAIN reminders
    /\ reminders[IntOf[r.path[2]]] # NoneVal
    /\ reminders[IntOf[r.path[2]]].user_id # r.user

\* C28: a request of user U that names a reminder of another user is
\* answered not-found; no request of U changes a reminder of another user;
\* a list returned to U holds reminders of U alone
C28_OwnerIsolation ==
    [][ /\ NamesForeign(rem_response') =>
              /\ rem_response'.status = 404
              /\ rem_response'.body = {}
              /\ reminders' = reminders
        /\ \A i \in DOMAIN reminders :
              (reminders[i] # NoneVal /\ reminders[i].user_id # rem_response'.user) =>
                  reminders'[i] = reminders[i]
        /\ rem_response'.endpoint \in {"get_reminders", "get_upcoming_reminders"} =>
              \A i \in rem_response'.body : reminders'[i].user_id = rem_response'.user
      ]_vars

\* a user asked to change or delete the reminder of another user and got
\* 404, and the reminder is there
C28_Witness ==
    /\ rem_response # NoneVal
    /\ rem_response.endpoint \in {"update_reminder", "delete_reminder"}
    /\ rem_response.status = 404
    /\ NamesForeign(rem_response)
    /\ \E i \in DOMAIN reminders :
          /\ reminders[i] # NoneVal
          /\ reminders[i].user_id = rem_response.user

---------------------------------------------------------------------------
(* The /analyze endpoints of main.py: each gets a text (the form field,    *)
(* what the recogniser heard, what the OCR read) and calls                 *)
(* extract_scheduling_info with it.  The request is made by a user who is  *)
(* in some timezone; no field of the request carries it.                   *)

\* where the requesting user is: in Tokyo, or in the zone of the host
ClientZones == {"Asia/Tokyo", "local"}

\* the texts that reach the endpoints; the recogniser and the OCR give ""
\* when they fail
ApiTexts == ConcTexts \cup {<<>>}

\* variant: the endpoint passes the zone of the requesting user
ApiHintClientZone(request) == request.client_timezone

\* main.py lines 329, 352 and 374: extract_scheduling_info(text), the
\* parameter user_timezone is left at its default, None
ApiHint(request) == NoHint

InitApi ==
    /\ NoCall
    /\ NoApi
    /\ calls = <<>>
    /\ module_state = [nlp |-> "en_core_web_sm"]
    /\ NoAuth
    /\ NoReminders

\* the endpoint has its text and calls extract_scheduling_info
CallFromApi(request, t) ==
    /\ pc = "idle"
    /\ api_request = NoneVal
    /\ api_request' = request
    /\ text' = t
    /\ user_timezone' = ApiHint(request)
    /\ pc' = "start"
    /\ UNCHANGED <<text_lower, tz, now, scheduling_info, matches, mi, date_entities,
                   time_entities, parser_calls, nlp_arg, doc, entities, final_title,
                   exc, result, api_response>>
    /\ UNCHANGED <<concVars, authVars, remVars>>

\* the endpoint fails before the call (the upload cannot be written): the
\* 500 of its handler
FailBeforeCall(request) ==
    /\ pc = "idle"
    /\ api_request = NoneVal
    /\ api_request' = request
    /\ api_response' = [status |-> 500, scheduling_info |-> NoneVal]
    /\ UNCHANGED <<callVars, concVars, authVars, remVars>>

\* main.py lines 315-341
AnalyzeVoice(zone, t) ==
    LET request == [endpoint |-> "/analyze/voice", client_timezone |-> zone]
    IN  CallFromApi(request, t) \/ FailBeforeCall(request)

\* main.py lines 343-358
AnalyzeText(zone, t) ==
    CallFromApi([endpoint |-> "/analyze/text", client_timezone |-> zone], t)

\* main.py lines 360-384
AnalyzeImage(zone, t) ==
    LET request == [endpoint |-> "/analyze/image", client_timezone |-> zone]
    IN  CallFromApi(request, t) \/ FailBeforeCall(request)

\* the endpoint returns what the call returned, as scheduling_info
ApiRespond ==
    /\ pc = "done"
    /\ api_request # NoneVal
    /\ api_response = NoneVal
    /\ api_response' = [status |-> 200, scheduling_info |-> result]
    /\ UNCHANGED <<api_request, callVars, concVars, authVars, remVars>>

NextApi ==
    \/ \E zone \in ClientZones, t \in ApiTexts : AnalyzeVoice(zone, t)
    \/ \E zone \in ClientZones, t \in ApiTexts : AnalyzeText(zone, t)
    \/ \E zone \in ClientZones, t \in ApiTexts : AnalyzeImage(zone, t)
    \/ Next
    \/ ApiRespond

SpecApi == InitApi /\ [][NextApi]_vars

\* C30: in a call made for a request to an /analyze endpoint there is no
\* hint, so the zone is the host's, now is the host's local now, and every
\* relative date is now plus the offset of its phrase, wherever the user is
C30_ApiAnchorsOnHost ==
    (api_request # NoneVal /\ pc # "idle") =>
        /\ user_timezone = NoHint
        /\ pc # "start" =>
              /\ tz = "local"
              /\ now = DateTime(HostDay, "local")
        /\ RelativeDone =>
              \A i \in 1..Len(date_entities) :
                  i > Len(Parses) =>
                      date_entities[i].date =
                          DateTime(HostDay + OffsetOf(date_entities[i].text), "local")
        /\ (api_response # NoneVal /\ ReturnedSuccess /\ Parses = <<>>
                /\ result.detected_date # NoneVal) =>
              /\ api_response.scheduling_info = result
              /\ result.detected_date.tz = "local"
              /\ result.detected_date.day - HostDay \in {0, 1}

\* a user in Tokyo asked about "tomorrow ..." and got the day after the
\* host's date
C30_Witness ==
    /\ api_request # NoneVal
    /\ api_request.client_timezone = "Asia/Tokyo"
    /\ api_response # NoneVal
    /\ api_response.status = 200
    /\ ReturnedSuccess
    /\ text = <<"tomorrow", " ", "5", ":", "30pm">>
    /\ api_response.scheduling_info.detected_date = DateTime(HostDay + 1, "local")

====
